---- MODULE Spec2Model ----
(***************************************************************************)
(* A model of the gadget subsystem of Floating Sandbox (Physics::Gadgets,  *)
(* Physics::ImpactBombGadget) and of the interaction surface of            *)
(* Physics::World that drives it.                                          *)
(*                                                                         *)
(* Positions are integer vectors, temperatures are integers around the     *)
(* trigger temperature.  Element indices are 0-based as in the source.     *)
(***************************************************************************)
EXTENDS Integers, Sequences, FiniteSets, TLC

VARIABLES
    mAllShips,        \* World::mAllShips: the ships, in insertion order (ShipId = index)
    shipsToAdd,       \* input: the definitions of the ships that are still to be added
    lastCall,         \* history: the last operation invoked, its arguments, result and emitted events
    world,            \* World: the simulation time, the storm, the wind and the ocean surface
    environment       \* input: the wall clock, the game parameters, and the interactions since the last step

vars == <<mAllShips, shipsToAdd, lastCall, world, environment>>

----------------------------------------------------------------------------
(* Bounds of the model *)

\* no more gadgets than this are created in a run (mNextLocalGadgetId, summed
\* over the ships, is never advanced beyond it)
MaxGadgetsCreated == 2

\* GameParameters::ToolSearchRadius, the value handed to every toggle
ToolSearchRadius == 2

\* no more simulation steps than this are run with the ships
MaxWorldSteps == 3

\* no more simulation steps than this are run with the abnormal waves
MaxAbnormalWaveSteps == 10

\* no more simulation steps than this are run with the disturbances
MaxOceanSurfaceSteps == 3

\* no more simulation steps than this are run with the interactive wave
MaxInteractiveWaveSteps == 4

\* no more interactions of the user than this take place in a run
MaxInteractions == 2

\* no more changes of the rates of the abnormal waves, or waves triggered by
\* the user, than this take place in a run
MaxRateChanges == 1

\* the calls of OceanSurface::Update and the changes of the parameters of
\* the waves in a run of the parameters
MaxParameterSteps == 3
MaxParameterChanges == 2

\* no more uploads of the ocean surface than this are made in a run
MaxUploads == 1

\* no more diffusions of the light than this are run, with no more lamps at
\* hand than this
MaxDiffusions == 1
MaxLamps == 3

\* the values up to this one are ceiled to a power of two
MaxCeiledValue == 300

\* the directions of no more springs than this are calculated at once,
\* besides those of the fixture
MaxSprings == 2

\* no more drags and releases of the surface than this, at any time
MaxReleaseInteractions == 3

\* no more calls of UpdateFields than this on the fields at hand
MaxFieldUpdates == 2

\* the small coordinates of the endpoints of the lines, and of the endpoints
\* around 2^24 relative to it
MaxLineCoordinate == 3

\* no more iterations of the loop of a line path than this
MaxLineIterations == 8

\* no more line paths than this
MaxLinePaths == 1

\* the calls of ApplyDampingBoundaryConditions on one pair of fields
MaxDampings == 2

\* the Updates within which an abnormal wave is to complete
MaxAbnormalWaveUpdates == 8

\* no more calls of ApplySparkAt and of ShipElectricSparks::Update than this
\* take place in a run
MaxSparkSteps == 3

----------------------------------------------------------------------------
(* Program constants *)

\* NoneElementIndex: "no element"
NoneElementIndex == -1

\* std::numeric_limits<float>::max(), larger than every squared distance of the model
FloatMax == 1000000

\* GameParameters::BombsTemperatureTrigger
BombsTemperatureTrigger == 1

\* ImpactBombGadget::ExplosionFadeoutStepsCount
ExplosionFadeoutStepsCount == 3

\* The temperatures a particle may take: at the trigger, and above it
Temperatures == {BombsTemperatureTrigger, BombsTemperatureTrigger + 1}

\* GameParameters::TsunamiRate, RogueWaveRate: the rates the user may set, in minutes
AbnormalWaveRates == {0, 1}

\* the speeds of the wind handed to OceanSurface::Update, in km/h, and the
\* values of the adjustments of the basal waves
WindSpeeds == {0, 30}
BasalWaveAdjustments == {1, 2}

\* the world coordinates the user drags the ocean surface to: the sample of
\* the x, and the y
InteractiveWaveCoordinates ==
    { [sampleIndex |-> 1, y |-> [k |-> "num", v |-> 100000]],
      [sampleIndex |-> 1, y |-> [k |-> "num", v |-> 0]],
      [sampleIndex |-> 2, y |-> [k |-> "num", v |-> 10000000]] }

\* the offsets by which a disturbance displaces the ocean surface
Displacements == { [k |-> "num", v |-> 4500000] }

\* the heights and the velocities of the cells that the damping is applied to
CellHeights ==
    { [k |-> "num", v |-> 1000000], [k |-> "num", v |-> 1234567], [k |-> "num", v |-> 812345] }

CellVelocities ==
    { [k |-> "num", v |-> 0], [k |-> "num", v |-> 33333], [k |-> "num", v |-> -250000] }

\* The bomb kinds placed by the World toggles
BombTypes == {"ImpactBomb", "TimerBomb", "RCBomb", "AntiMatterBomb"}

----------------------------------------------------------------------------
(* Ship definitions: the inputs of World::AddShip, in the order they are   *)
(* added.  pointPositions is indexed by ElementIndex; springs gives the    *)
(* two endpoints of each spring, indexed by spring ElementIndex.           *)

\* a ship of three particles in a row
LongShipDefinition ==
    [ pointPositions |-> (0 :> <<1, 0>> @@ 1 :> <<3, 0>> @@ 2 :> <<4, 0>>),
      springs        |-> (0 :> <<0, 1>> @@ 1 :> <<1, 2>>) ]

\* two ships of two particles, both within reach of <<2, 0>>
RightShipDefinition ==
    [ pointPositions |-> (0 :> <<3, 0>> @@ 1 :> <<4, 0>>),
      springs        |-> (0 :> <<0, 1>>) ]

LeftShipDefinition ==
    [ pointPositions |-> (0 :> <<0, 0>> @@ 1 :> <<1, 0>>),
      springs        |-> (0 :> <<0, 1>>) ]

\* a ship of eight particles: a keel of five, a rib rising from the second
\* and from the fourth particle of the keel, and a mast on the left rib that
\* a long spring ties back to the end of the keel, along the mast itself
RibbedShipDefinition ==
    [ pointPositions |-> (0 :> <<0, 0>> @@ 1 :> <<1, 0>> @@ 2 :> <<2, 0>> @@ 3 :> <<3, 0>> @@
                          4 :> <<4, 0>> @@ 5 :> <<0, 1>> @@ 6 :> <<4, 1>> @@ 7 :> <<0, 2>>),
      springs        |-> (0 :> <<0, 1>> @@ 1 :> <<1, 2>> @@ 2 :> <<2, 3>> @@ 3 :> <<3, 4>> @@
                          4 :> <<1, 5>> @@ 5 :> <<3, 6>> @@ 6 :> <<5, 7>> @@ 7 :> <<0, 7>>) ]

\* The positions the interaction tools are aimed at
TargetPositions == { <<2, 0>>, <<3, 0>>, <<9, 0>> }

\* the positions of the interactions applied to all the ships: in reach of
\* both ships, of the first only, of the second only, of none
ApplyTargetPositions == { <<2, 0>>, <<3, 0>>, <<0, 0>>, <<9, 0>> }

\* The positions the electric spark tool is aimed at: on a particle with
\* others in reach, beside the ship in reach of one particle, just out of
\* reach, and far away
SparkTargetPositions == { <<2, 0>>, <<5, 0>>, <<5, 2>>, <<9, 9>> }

\* the counters of the interaction that ApplySparkAt is called with.  A
\* counter is a std::uint64_t, kept as a residue modulo 2^64: -1 is 2^64 - 1
SparkCounters == {0, 3, -1}

----------------------------------------------------------------------------
(* Vectors *)

vecSub(a, b) == <<a[1] - b[1], a[2] - b[2]>>

squareLength(v) == v[1] * v[1] + v[2] * v[2]

----------------------------------------------------------------------------
(* Sequences *)

\* the sequence without its i-th element (container erase)
Erase(seq, i) == SubSeq(seq, 1, i - 1) \o SubSeq(seq, i + 1, Len(seq))

----------------------------------------------------------------------------
(* Points: the per-particle state of a ship that gadgets read and write *)

PointIndices(ship) == DOMAIN ship.points

GetPosition(ship, pointIndex) == ship.points[pointIndex].position

GetTemperature(ship, pointIndex) == ship.points[pointIndex].temperature

GetConnectedSprings(ship, pointIndex) == ship.points[pointIndex].connectedSprings

IsGadgetAttached(ship, pointIndex) == ship.points[pointIndex].isGadgetAttached

\* Points::AttachGadget: marks the particle as hosting a gadget.
\* attachedGadgetType is a history field: the type of the gadget the mark was set for.
AttachGadget(ship, pointIndex, gadget) ==
    [ship EXCEPT !.points[pointIndex].isGadgetAttached = TRUE,
                 !.points[pointIndex].attachedGadgetType = gadget.type]

\* Points::DetachGadget: clears the mark
DetachGadget(ship, pointIndex) ==
    [ship EXCEPT !.points[pointIndex].isGadgetAttached = FALSE,
                 !.points[pointIndex].attachedGadgetType = "None"]

\* Springs::GetMidpointPosition, doubled to stay in the integers
GetMidpointPositionX2(ship, springIndex) ==
    LET e == ship.springEndpoints[springIndex]
        a == GetPosition(ship, e[1])
        b == GetPosition(ship, e[2])
    IN  <<a[1] + b[1], a[2] + b[2]>>

----------------------------------------------------------------------------
(* Gadget: the state common to all gadgets, and ImpactBombGadget's own *)

\* the spring a new gadget tracks: the first connected spring of its particle
FirstConnectedSpring(ship, pointIndex) ==
    LET cs == GetConnectedSprings(ship, pointIndex)
    IN  IF cs = {} THEN NoneElementIndex
        ELSE CHOOSE x \in cs : \A y \in cs : x <= y

\* Gadget::Gadget and ImpactBombGadget::ImpactBombGadget.
\* startExplosionCalls, bombExplosionEvents and updatesWhileExploding are
\* history fields: how often this gadget has invoked StartExplosion, has
\* emitted OnBombExplosion, and has been updated while in state Exploding.
NewGadget(ship, type, pointIndex) ==
    [ id                      |-> <<ship.shipId, ship.nextLocalGadgetId>>,
      type                    |-> type,
      pointIndex              |-> pointIndex,
      trackedSpring           |-> FirstConnectedSpring(ship, pointIndex),
      state                   |-> "Idle",
      explosionFadeoutCounter |-> 0,
      startExplosionCalls     |-> 0,
      bombExplosionEvents     |-> 0,
      updatesWhileExploding   |-> 0 ]

GadgetPosition(ship, gadget) == GetPosition(ship, gadget.pointIndex)

Event(name, gadget) == [event |-> name, gadgetId |-> gadget.id, gadgetType |-> gadget.type]

\* Gadget::MayBeRemoved
MayBeRemoved(gadget) == TRUE

\* Gadget::OnExternallyRemoved
OnExternallyRemoved(gadget) == gadget

\* Gadget::OnNeighborhoodDisturbed
OnNeighborhoodDisturbed(gadget) == gadget

\* Gadget::OnTrackedSpringDestroyed
OnTrackedSpringDestroyed(gadget) == [gadget EXCEPT !.trackedSpring = NoneElementIndex]

\* a mutation of the Idle case: triggers at the trigger temperature already
ImpactBombGadget_UpdateIdle_AtTrigger(gadget, ship) ==
    [ gadget   |-> IF GetTemperature(ship, gadget.pointIndex) >= BombsTemperatureTrigger
                   THEN [gadget EXCEPT !.state = "TriggeringExplosion"]
                   ELSE gadget,
      isActive |-> TRUE,
      events   |-> << >> ]

\* ImpactBombGadget::Update, case State::Idle
ImpactBombGadget_UpdateIdle(gadget, ship) ==
    [ gadget   |-> IF GetTemperature(ship, gadget.pointIndex) > BombsTemperatureTrigger
                   THEN [gadget EXCEPT !.state = "TriggeringExplosion"]
                   ELSE gadget,
      isActive |-> TRUE,
      events   |-> << >> ]

\* a mutation of the TriggeringExplosion case: the gadget is left waiting
\* in TriggeringExplosion, so the explosion is started again at the next call
ImpactBombGadget_UpdateTriggeringExplosion_Stay(gadget, ship) ==
    [ gadget   |-> [gadget EXCEPT !.startExplosionCalls = @ + 1,
                                  !.bombExplosionEvents = @ + 1],
      isActive |-> TRUE,
      events   |-> << Event("StartExplosion", gadget), Event("OnBombExplosion", gadget) >> ]

\* ImpactBombGadget::Update, case State::TriggeringExplosion
ImpactBombGadget_UpdateTriggeringExplosion(gadget, ship) ==
    [ gadget   |-> [gadget EXCEPT !.state = "Exploding",
                                  !.startExplosionCalls = @ + 1,
                                  !.bombExplosionEvents = @ + 1],
      isActive |-> TRUE,
      events   |-> << Event("StartExplosion", gadget), Event("OnBombExplosion", gadget) >> ]

\* a mutation of the Exploding case: expires one step late
ImpactBombGadget_UpdateExploding_Late(gadget, ship) ==
    LET counter == gadget.explosionFadeoutCounter + 1
    IN  [ gadget   |-> [gadget EXCEPT !.explosionFadeoutCounter = counter,
                                      !.state = IF counter > ExplosionFadeoutStepsCount
                                                THEN "Expired" ELSE @],
          isActive |-> TRUE,
          events   |-> << >> ]

\* ImpactBombGadget::Update, case State::Exploding
ImpactBombGadget_UpdateExploding(gadget, ship) ==
    LET counter == gadget.explosionFadeoutCounter + 1
    IN  [ gadget   |-> [gadget EXCEPT !.explosionFadeoutCounter = counter,
                                      !.state = IF counter >= ExplosionFadeoutStepsCount
                                                THEN "Expired" ELSE @],
          isActive |-> TRUE,
          events   |-> << >> ]

\* ImpactBombGadget::Update
ImpactBombGadget_Update(gadget, ship) ==
    CASE gadget.state = "Idle"                -> ImpactBombGadget_UpdateIdle(gadget, ship)
      [] gadget.state = "TriggeringExplosion" -> ImpactBombGadget_UpdateTriggeringExplosion(gadget, ship)
      [] gadget.state = "Exploding"           -> ImpactBombGadget_UpdateExploding(gadget, ship)
      [] OTHER                                -> [gadget |-> gadget, isActive |-> FALSE, events |-> << >>]

\* Update of the other bomb kinds: they wait in place
OtherBombGadget_Update(gadget, ship) ==
    [gadget |-> gadget, isActive |-> TRUE, events |-> << >>]

\* PhysicsProbeGadget::Update: the probe never expires
PhysicsProbeGadget_Update(gadget, ship) ==
    [gadget |-> gadget, isActive |-> TRUE, events |-> << >>]

\* the virtual call of Gadget::Update, dispatched on the gadget's type
Gadget_UpdateDispatch(gadget, ship) ==
    CASE gadget.type = "ImpactBomb"   -> ImpactBombGadget_Update(gadget, ship)
      [] gadget.type = "PhysicsProbe" -> PhysicsProbeGadget_Update(gadget, ship)
      [] OTHER                        -> OtherBombGadget_Update(gadget, ship)

\* (*it)->Update(...), with the history of the calls made while Exploding
Gadget_Update(gadget, ship) ==
    LET r == Gadget_UpdateDispatch(gadget, ship)
    IN  [r EXCEPT !.gadget.updatesWhileExploding =
                      IF gadget.state = "Exploding" THEN @ + 1 ELSE @]

----------------------------------------------------------------------------
(* Gadgets: the collection of a ship's gadgets *)

\* Gadgets::NeighborhoodRadius
NeighborhoodRadius == 2

\* a mutation of the erase: the iterator is advanced past the element that
\* took the erased one's place
Gadgets_EraseAt_SkipNext(gadgets, it) ==
    [gadgets |-> Erase(gadgets, it), it |-> it + 1]

\* it = mCurrentGadgets.erase(it): the iterator then designates the element
\* that followed the erased one
Gadgets_EraseAt(gadgets, it) ==
    [gadgets |-> Erase(gadgets, it), it |-> it]

\* The loop of Gadgets::Update from iterator position it on.  The "Update"
\* entries of events are history: they record the calls of Gadget::Update.
RECURSIVE Gadgets_UpdateLoop(_, _, _, _)
Gadgets_UpdateLoop(ship, gadgets, it, events) ==
    IF it > Len(gadgets)
    THEN [gadgets |-> gadgets, events |-> events]
    ELSE LET r == Gadget_Update(gadgets[it], ship)
             called == events \o << Event("Update", gadgets[it]) >> \o r.events
         IN  IF ~ r.isActive
             THEN LET e == Gadgets_EraseAt(gadgets, it)
                  IN  Gadgets_UpdateLoop(ship, e.gadgets, e.it,
                          called \o << Event("OnGadgetRemoved", gadgets[it]) >>)
             ELSE Gadgets_UpdateLoop(ship, [gadgets EXCEPT ![it] = r.gadget], it + 1, called)

\* Gadgets::Update
Gadgets_Update(ship) ==
    LET swept == Gadgets_UpdateLoop(ship, ship.gadgets, 1, << >>)
        probe == IF ship.physicsProbe # << >>
                 THEN << PhysicsProbeGadget_Update(ship.physicsProbe[1], ship).gadget >>
                 ELSE << >>
        probeCalled == IF ship.physicsProbe # << >>
                       THEN << Event("Update", ship.physicsProbe[1]) >>
                       ELSE << >>
    IN  [ ship   |-> [ship EXCEPT !.gadgets = swept.gadgets, !.physicsProbe = probe],
          events |-> swept.events \o probeCalled ]

\* (gadget position - center).squareLength() < NeighborhoodRadius^2, with the
\* center given doubled
InNeighborhoodX2(ship, gadget, centerX2) ==
    LET p == GadgetPosition(ship, gadget)
    IN  squareLength(vecSub(<<2 * p[1], 2 * p[2]>>, centerX2))
            < 4 * NeighborhoodRadius * NeighborhoodRadius

\* Gadgets::OnPointDetached
Gadgets_OnPointDetached(ship, pointElementIndex) ==
    LET c == GetPosition(ship, pointElementIndex)
        centerX2 == <<2 * c[1], 2 * c[2]>>
    IN  [ship EXCEPT !.gadgets =
            [i \in DOMAIN ship.gadgets |->
                IF InNeighborhoodX2(ship, ship.gadgets[i], centerX2)
                THEN OnNeighborhoodDisturbed(ship.gadgets[i])
                ELSE ship.gadgets[i]]]

\* Gadgets::OnSpringDestroyed
Gadgets_OnSpringDestroyed(ship, springElementIndex) ==
    LET centerX2 == GetMidpointPositionX2(ship, springElementIndex)
        Told(g) == IF g.trackedSpring # NoneElementIndex /\ g.trackedSpring = springElementIndex
                   THEN OnTrackedSpringDestroyed(g)
                   ELSE g
        Disturbed(g) == IF InNeighborhoodX2(ship, g, centerX2)
                        THEN OnNeighborhoodDisturbed(g)
                        ELSE g
    IN  [ship EXCEPT
            !.gadgets = [i \in DOMAIN ship.gadgets |-> Disturbed(Told(ship.gadgets[i]))],
            !.physicsProbe = [i \in DOMAIN ship.physicsProbe |-> Told(ship.physicsProbe[i])]]

\* the candidate test of the toggles: at least one connected
\* spring, and no gadget attached
IsCandidate(ship, pointIndex) ==
    /\ GetConnectedSprings(ship, pointIndex) # {}
    /\ ~ IsGadgetAttached(ship, pointIndex)

\* the keep-the-nearest test of TogglePhysicsProbeAt
KeepsNearest(squareDistance, squareSearchRadius, nearestCandidatePointDistance) ==
    squareDistance < squareSearchRadius /\ squareDistance < nearestCandidatePointDistance

\* The search loop of TogglePhysicsProbeAt from pointIndex on, in the order
\* of RawShipPoints; yields nearestCandidatePointIndex.
RECURSIVE NearestCandidateLoop(_, _, _, _, _, _)
NearestCandidateLoop(ship, targetPos, squareSearchRadius, pointIndex, nearestCandidatePointIndex, nearestCandidatePointDistance) ==
    IF pointIndex \notin PointIndices(ship)
    THEN nearestCandidatePointIndex
    ELSE LET squareDistance == squareLength(vecSub(GetPosition(ship, pointIndex), targetPos))
         IN  IF /\ IsCandidate(ship, pointIndex)
                /\ squareDistance < squareSearchRadius
                /\ KeepsNearest(squareDistance, squareSearchRadius, nearestCandidatePointDistance)
             THEN NearestCandidateLoop(ship, targetPos, squareSearchRadius, pointIndex + 1,
                                       pointIndex, squareDistance)
             ELSE NearestCandidateLoop(ship, targetPos, squareSearchRadius, pointIndex + 1,
                                       nearestCandidatePointIndex, nearestCandidatePointDistance)

NearestCandidate(ship, targetPos, squareSearchRadius) ==
    NearestCandidateLoop(ship, targetPos, squareSearchRadius, 0, NoneElementIndex, FloatMax)

\* a mutation of the removal branch: the probe is dropped but its particle
\* keeps the attachment mark
RemoveCurrentProbe_KeepsMark(ship) ==
    [ship EXCEPT !.physicsProbe = << >>]

\* the removal of the current probe, common to both branches of
\* TogglePhysicsProbeAt and to RemovePhysicsProbe: OnExternallyRemoved,
\* DetachGadget, reset
RemoveCurrentProbe(ship) ==
    LET probe == OnExternallyRemoved(ship.physicsProbe[1])
    IN  [DetachGadget(ship, probe.pointIndex) EXCEPT !.physicsProbe = << >>]

\* a mutation of the in-radius test of the existing probe: the radius is included
ProbeInRadius_Inclusive(ship, targetPos, squareSearchRadius) ==
    squareLength(vecSub(GadgetPosition(ship, ship.physicsProbe[1]), targetPos)) <= squareSearchRadius

\* the in-radius test of the existing probe
ProbeInRadius(ship, targetPos, squareSearchRadius) ==
    squareLength(vecSub(GadgetPosition(ship, ship.physicsProbe[1]), targetPos)) < squareSearchRadius

\* the creation of the probe on the candidate particle, then AttachGadget
PlaceProbe(ship, pointIndex) ==
    LET probe == NewGadget(ship, "PhysicsProbe", pointIndex)
    IN  [AttachGadget(ship, pointIndex, probe) EXCEPT
            !.physicsProbe = << probe >>,
            !.nextLocalGadgetId = @ + 1]

\* Gadgets::TogglePhysicsProbeAt.  result is "false", "true" or "nullopt".
Gadgets_TogglePhysicsProbeAt(ship, targetPos, toolSearchRadius) ==
    LET squareSearchRadius == toolSearchRadius * toolSearchRadius
    IN  IF ship.physicsProbe # << >> /\ ProbeInRadius(ship, targetPos, squareSearchRadius)
        THEN \* remove the probe
             [ ship   |-> RemoveCurrentProbe(ship),
               result |-> "false",
               events |-> << Event("OnGadgetRemoved", ship.physicsProbe[1]) >> ]
        ELSE LET nearestCandidatePointIndex == NearestCandidate(ship, targetPos, squareSearchRadius)
             IN  IF nearestCandidatePointIndex # NoneElementIndex
                 THEN IF ship.physicsProbe # << >>
                      THEN \* move the probe
                           [ ship   |-> PlaceProbe(RemoveCurrentProbe(ship), nearestCandidatePointIndex),
                             result |-> "nullopt",
                             events |-> << >> ]
                      ELSE \* place the probe
                           LET placed == PlaceProbe(ship, nearestCandidatePointIndex)
                           IN  [ ship   |-> placed,
                                 result |-> "true",
                                 events |-> << Event("OnGadgetPlaced", placed.physicsProbe[1]) >> ]
                 ELSE \* can't do anything
                      [ ship |-> ship, result |-> "nullopt", events |-> << >> ]

\* a mutation of the removal: the probe is removed without a notification
Gadgets_RemovePhysicsProbe_Silent(ship) ==
    IF ship.physicsProbe # << >>
    THEN [ ship |-> RemoveCurrentProbe(ship), result |-> "void", events |-> << >> ]
    ELSE [ ship |-> ship, result |-> "void", events |-> << >> ]

\* Gadgets::RemovePhysicsProbe
Gadgets_RemovePhysicsProbe(ship) ==
    IF ship.physicsProbe # << >>
    THEN [ ship   |-> RemoveCurrentProbe(ship),
           result |-> "void",
           events |-> << Event("OnGadgetRemoved", ship.physicsProbe[1]) >> ]
    ELSE [ ship |-> ship, result |-> "void", events |-> << >> ]

\* The first gadget of the collection, from position it on, that lies within
\* the search radius of targetPos; 0 when there is none.
RECURSIVE FirstGadgetInRadius(_, _, _, _)
FirstGadgetInRadius(ship, targetPos, squareSearchRadius, it) ==
    IF it > Len(ship.gadgets) THEN 0
    ELSE IF squareLength(vecSub(GadgetPosition(ship, ship.gadgets[it]), targetPos)) < squareSearchRadius
         THEN it
         ELSE FirstGadgetInRadius(ship, targetPos, squareSearchRadius, it + 1)

\* Gadgets::ToggleGadgetAt<TGadget>: a gadget within the search radius is
\* removed; otherwise a new gadget is attached to the nearest candidate
\* particle.  result is TRUE when a gadget was found or placed.
Gadgets_ToggleGadgetAt(ship, type, targetPos, toolSearchRadius) ==
    LET squareSearchRadius == toolSearchRadius * toolSearchRadius
        found == FirstGadgetInRadius(ship, targetPos, squareSearchRadius, 1)
    IN  IF found # 0
        THEN LET gadget == ship.gadgets[found]
             IN  IF MayBeRemoved(gadget)
                 THEN [ ship   |-> [DetachGadget(ship, OnExternallyRemoved(gadget).pointIndex)
                                       EXCEPT !.gadgets = Erase(ship.gadgets, found)],
                        result |-> TRUE,
                        events |-> << Event("OnGadgetRemoved", gadget) >> ]
                 ELSE [ ship |-> ship, result |-> TRUE, events |-> << >> ]
        ELSE LET nearestCandidatePointIndex == NearestCandidate(ship, targetPos, squareSearchRadius)
             IN  IF nearestCandidatePointIndex # NoneElementIndex
                 THEN LET gadget == NewGadget(ship, type, nearestCandidatePointIndex)
                      IN  [ ship   |-> [AttachGadget(ship, nearestCandidatePointIndex, gadget) EXCEPT
                                           !.gadgets = Append(@, gadget),
                                           !.nextLocalGadgetId = @ + 1],
                            result |-> TRUE,
                            events |-> << Event("OnGadgetPlaced", gadget) >> ]
                 ELSE [ ship |-> ship, result |-> FALSE, events |-> << >> ]

----------------------------------------------------------------------------
(* PinnedPoints *)

PinEvent(name, ship, pointIndex) ==
    [event |-> name, gadgetId |-> <<ship.shipId, pointIndex>>, gadgetType |-> "Pin"]

\* PinnedPoints::ToggleAt: a pinned particle within the search radius is
\* unpinned; otherwise the nearest unpinned particle within it is pinned.
PinnedPoints_ToggleAt(ship, targetPos, toolSearchRadius) ==
    LET squareSearchRadius == toolSearchRadius * toolSearchRadius
        SquareDistance(p) == squareLength(vecSub(GetPosition(ship, p), targetPos))
        pinnedInRadius == {p \in ship.pinnedPoints : SquareDistance(p) < squareSearchRadius}
        freeInRadius == {p \in PointIndices(ship) \ ship.pinnedPoints :
                            SquareDistance(p) < squareSearchRadius}
        Nearest(S) == CHOOSE p \in S :
                        \A q \in S : \/ SquareDistance(p) < SquareDistance(q)
                                     \/ (SquareDistance(p) = SquareDistance(q) /\ p <= q)
    IN  IF pinnedInRadius # {}
        THEN [ ship   |-> [ship EXCEPT !.pinnedPoints = @ \ {Nearest(pinnedInRadius)}],
               result |-> TRUE,
               events |-> << PinEvent("OnPinToggled", ship, Nearest(pinnedInRadius)) >> ]
        ELSE IF freeInRadius # {}
             THEN [ ship   |-> [ship EXCEPT !.pinnedPoints = @ \cup {Nearest(freeInRadius)}],
                    result |-> TRUE,
                    events |-> << PinEvent("OnPinToggled", ship, Nearest(freeInRadius)) >> ]
             ELSE [ ship |-> ship, result |-> FALSE, events |-> << >> ]

----------------------------------------------------------------------------
(* Ship: the operations of a ship that World invokes *)

\* the history of the last propagation, kept beside the state of the
\* sparks: its counter, the expansion rounds run, the particles visited, the
\* path and the spring of each arc rendered, the path lengths of the visits
\* queued, and the buffer of the previous interaction as it was at the end
NoSparkHistory ==
    [ counter |-> << >>, rounds |-> 0, visits |-> << >>, arcs |-> << >>, queued |-> << >>,
      read |-> << >> ]

\* ShipElectricSparks::ShipElectricSparks: nothing is electrified, and there
\* is no arc to render
NewElectricSparks(definition) ==
    [ mIsSpringElectrified       |-> [s \in DOMAIN definition.springs |-> FALSE],
      mIsSpringElectrifiedBackup |-> [s \in DOMAIN definition.springs |-> FALSE],
      mIsPointElectrified        |-> [p \in DOMAIN definition.pointPositions |-> FALSE],
      mAreSparksPopulatedBeforeNextUpdate |-> FALSE,
      mSparksToRender            |-> << >>,
      history                    |-> NoSparkHistory ]

\* the ship built by ShipBuilder::Create from a definition
NewShip(shipId, definition) ==
    [ shipId            |-> shipId,
      springEndpoints   |-> definition.springs,
      points            |-> [p \in DOMAIN definition.pointPositions |->
                                [ position         |-> definition.pointPositions[p],
                                  temperature      |-> BombsTemperatureTrigger,
                                  connectedSprings |-> {s \in DOMAIN definition.springs :
                                                          p \in {definition.springs[s][1],
                                                                 definition.springs[s][2]}},
                                  isGadgetAttached |-> FALSE,
                                  attachedGadgetType |-> "None" ]],
      gadgets           |-> << >>,
      physicsProbe      |-> << >>,
      nextLocalGadgetId |-> 0,
      pinnedPoints      |-> {},
      mElectricSparks   |-> NewElectricSparks(definition),
      applications      |-> << >> ]

\* Ship::ToggleImpactBombAt, ToggleTimerBombAt, ToggleRCBombAt,
\* ToggleAntiMatterBombAt and TogglePinAt, selected by kind
Ship_ToggleAt(ship, kind, targetPos, toolSearchRadius) ==
    IF kind = "Pin"
    THEN PinnedPoints_ToggleAt(ship, targetPos, toolSearchRadius)
    ELSE Gadgets_ToggleGadgetAt(ship, kind, targetPos, toolSearchRadius)

\* the destruction of a spring: both endpoints lose it, then the gadgets are told
Ship_DestroySpring(ship, springElementIndex) ==
    LET e == ship.springEndpoints[springElementIndex]
        disconnected == [ship EXCEPT
                            !.points[e[1]].connectedSprings = @ \ {springElementIndex},
                            !.points[e[2]].connectedSprings = @ \ {springElementIndex}]
    IN  Gadgets_OnSpringDestroyed(disconnected, springElementIndex)

\* the detachment of a particle: its springs are destroyed in index order,
\* then the gadgets are told
RECURSIVE Ship_DestroySprings(_, _)
Ship_DestroySprings(ship, springs) ==
    IF springs = {} THEN ship
    ELSE LET s == CHOOSE x \in springs : \A y \in springs : x <= y
         IN  Ship_DestroySprings(Ship_DestroySpring(ship, s), springs \ {s})

Ship_DetachPoint(ship, pointElementIndex) ==
    Gadgets_OnPointDetached(
        Ship_DestroySprings(ship, GetConnectedSprings(ship, pointElementIndex)),
        pointElementIndex)

----------------------------------------------------------------------------
(* float: the numbers of the simulation.  A finite value is a whole number of
   units of 1 / Scale, about the precision of a float at the magnitudes of
   the ocean heights; every product and quotient is rounded to the nearest
   unit.  The quotient by zero and what follows from it are kept: infinities
   and NaN. *)

\* the units per 1.0f
Scale == 100000

\* the largest quotient of two finite values that is kept finite
MaxQuotient == 20000

\* the finite value of v units
F(v) == [k |-> "num", v |-> v]

\* the finite value of the whole number n
FInt(n) == F(n * Scale)

NaN == [k |-> "nan", v |-> 0]

PosInf == [k |-> "inf", v |-> 1]

NegInf == [k |-> "inf", v |-> -1]

IsNum(x) == x.k = "num"

IsNaN(x) == x.k = "nan"

Sign(n) == IF n > 0 THEN 1 ELSE IF n < 0 THEN -1 ELSE 0

\* <<q, r>> of a * b out of h, the <<q, r>> of a * (b \div 16), and of n,
\* the remainder of a by c times the last hexadecimal digit of b
MulDivQRStep(a, b, c, h, n) ==
    << 16 * h[1] + (a \div c) * (b % 16) + (16 * h[2] + n) \div c, (16 * h[2] + n) % c >>



\* <<q, r>> with a * b = q * c + r and 0 <= r < c, for a, b >= 0 and
\* 0 < c < 2^26: at once when the product is within the 32 bits of the
\* integers, otherwise digit by digit of b, so that no intermediate value
\* exceeds 31 * c
RECURSIVE MulDivQR(_, _, _)
MulDivQR(a, b, c) ==
    IF b = 0 THEN << 0, 0 >>
    ELSE IF a <= 2147483647 \div b THEN << (a * b) \div c, (a * b) % c >>
    ELSE MulDivQRStep(a, b, c, MulDivQR(a, b \div 16, c), (a % c) * (b % 16))

\* the quotient of qr rounded to the nearest whole number
RoundedQuotient(qr, c) == qr[1] + (IF 2 * qr[2] >= c THEN 1 ELSE 0)

\* a * b / c rounded to the nearest whole number, for a, b >= 0 and c > 0
MulDivAbs(a, b, c) ==
    RoundedQuotient(IF a < b THEN MulDivQR(b, a, c) ELSE MulDivQR(a, b, c), c)

\* a * b / c rounded to the nearest whole number, for c > 0
MulDiv(a, b, c) ==
    Sign(a) * Sign(b) * MulDivAbs(Sign(a) * a, Sign(b) * b, c)

\* -a
FNeg(a) == IF IsNaN(a) THEN NaN ELSE [a EXCEPT !.v = - a.v]

\* a + b
FAdd(a, b) ==
    IF IsNaN(a) \/ IsNaN(b) THEN NaN
    ELSE IF IsNum(a) /\ IsNum(b) THEN F(a.v + b.v)
    ELSE IF IsNum(a) THEN b
    ELSE IF IsNum(b) THEN a
    ELSE IF a.v = b.v THEN a ELSE NaN

\* a - b
FSub(a, b) == FAdd(a, FNeg(b))

\* a * b
FMul(a, b) ==
    IF IsNaN(a) \/ IsNaN(b) THEN NaN
    ELSE IF IsNum(a) /\ IsNum(b) THEN F(MulDiv(a.v, b.v, Scale))
    ELSE IF Sign(a.v) * Sign(b.v) = 0 THEN NaN
    ELSE [k |-> "inf", v |-> Sign(a.v) * Sign(b.v)]

\* a / b
FDiv(a, b) ==
    IF IsNaN(a) \/ IsNaN(b) THEN NaN
    ELSE IF IsNum(a) /\ IsNum(b)
         THEN IF b.v = 0
              THEN IF a.v = 0 THEN NaN ELSE [k |-> "inf", v |-> Sign(a.v)]
              ELSE IF (Sign(a.v) * a.v) \div (Sign(b.v) * b.v) >= MaxQuotient
                   THEN [k |-> "inf", v |-> Sign(a.v) * Sign(b.v)]
                   ELSE F(Sign(b.v) * MulDiv(a.v, Scale, Sign(b.v) * b.v))
    ELSE IF IsNum(a) THEN F(0)
    ELSE IF IsNum(b) THEN [k |-> "inf", v |-> a.v * (IF b.v >= 0 THEN 1 ELSE -1)]
    ELSE NaN

\* a < b: false when either is NaN
FLess(a, b) ==
    IF IsNaN(a) \/ IsNaN(b) THEN FALSE
    ELSE IF IsNum(a) /\ IsNum(b) THEN a.v < b.v
    ELSE IF IsNum(a) THEN b.v > 0
    ELSE IF IsNum(b) THEN a.v < 0
    ELSE a.v < b.v

\* a >= b: false when either is NaN
FGreaterEq(a, b) == ~ IsNaN(a) /\ ~ IsNaN(b) /\ ~ FLess(a, b)

\* std::min(a, b): b when b < a, otherwise a
StdMin(a, b) == IF FLess(b, a) THEN b ELSE a

\* std::max(a, b): b when a < b, otherwise a
StdMax(a, b) == IF FLess(a, b) THEN b ELSE a

\* std::abs
FAbs(a) == IF IsNaN(a) THEN NaN ELSE [a EXCEPT !.v = IF a.v < 0 THEN - a.v ELSE a.v]

\* Clamp(x, lLimit, rLimit) of GameMath: x < lLimit ? lLimit : (x > rLimit ? rLimit : x)
Clamp(x, lLimit, rLimit) ==
    LET mx == IF FLess(x, lLimit) THEN lLimit ELSE x
    IN  IF FLess(rLimit, mx) THEN rLimit ELSE mx

\* the cubic 3t^2 - 2t^3
SmoothStepCubic(t) == FMul(FMul(t, t), FSub(FInt(3), FMul(FInt(2), t)))

\* SmoothStep(lEdge, rEdge, x) of GameMath: the cubic 3t^2 - 2t^3 of
\* t = Clamp((x - lEdge) / (rEdge - lEdge), 0, 1)
SmoothStep(lEdge, rEdge, x) ==
    SmoothStepCubic(Clamp(FDiv(FSub(x, lEdge), FSub(rEdge, lEdge)), F(0), FInt(1)))

\* the value at x of the function that is linear between the points of table,
\* a sequence of <<x, y>> in thousandths with increasing x; the last y beyond the last x
RECURSIVE Interpolate(_, _, _)
Interpolate(table, i, x) ==
    IF i = Len(table) THEN table[i][2]
    ELSE IF x <= table[i + 1][1]
         THEN table[i][2] + MulDiv(table[i + 1][2] - table[i][2], x - table[i][1],
                                   table[i + 1][1] - table[i][1])
         ELSE Interpolate(table, i + 1, x)

\* e^(-x) at 0, 0.25, 0.5, 1, 1.5, 2, 3, 4, 5, 7, 10
ExpTable ==
    << <<0, 1000>>, <<250, 779>>, <<500, 607>>, <<1000, 368>>, <<1500, 223>>, <<2000, 135>>,
       <<3000, 50>>, <<4000, 18>>, <<5000, 7>>, <<7000, 1>>, <<10000, 0>> >>

\* std::exp(-x) for x >= 0
ExpNeg(x) ==
    IF IsNaN(x) THEN NaN
    ELSE IF ~ IsNum(x) THEN F(0)
    ELSE F(MulDiv(Interpolate(ExpTable, 1, MulDiv(x.v, 1000, Scale)), Scale, 1000))

\* sin(Pi / 2 * p) at p = 0, 0.1, ..., 1
SinTable ==
    << <<0, 0>>, <<100, 156>>, <<200, 309>>, <<300, 454>>, <<400, 588>>, <<500, 707>>,
       <<600, 809>>, <<700, 891>>, <<800, 951>>, <<900, 988>>, <<1000, 1000>> >>

\* sin(Pi / 2 * p) for 0 <= p <= 1
SinHalfPi(p) ==
    IF ~ IsNum(p) THEN NaN ELSE F(MulDiv(Interpolate(SinTable, 1, MulDiv(p.v, 1000, Scale)), Scale, 1000))

----------------------------------------------------------------------------
(* ShipElectricSparks: the arcs of an electric spark, propagated along the
   springs of a ship.  The state is the record
   [mIsSpringElectrified, mIsSpringElectrifiedBackup, mIsPointElectrified,
    mAreSparksPopulatedBeforeNextUpdate, mSparksToRender]. *)

\* StartingArcsMin, StartingArcsMax of PropagateSparks
StartingArcsMin == 2

StartingArcsMax == 4

\* MaxPathLength of PropagateSparks
MaxPathLength == 25

\* the capture radius of ApplySparkAt: 1.5f as a squared distance, doubled
\* to stay in the integers
NearestDistanceX2 == 3

\* Points::GetRandomNormalizedUniformPersonalitySeed: a value fixed per
\* particle at construction, different for the particles of the model
PersonalitySeed(pointIndex) == (pointIndex * 3) % 11

\* Springs::GetOtherEndpointIndex
GetOtherEndpointIndex(ship, springIndex, pointIndex) ==
    IF ship.springEndpoints[springIndex][1] = pointIndex
    THEN ship.springEndpoints[springIndex][2]
    ELSE ship.springEndpoints[springIndex][1]

\* the connected springs of a particle in the order they are iterated: by
\* spring index
ConnectedSpringsInOrder(ship, pointIndex) ==
    SelectSeq([i \in 1..Cardinality(DOMAIN ship.springEndpoints) |-> i - 1],
              LAMBDA s : s \in GetConnectedSprings(ship, pointIndex))

vecDot(a, b) == a[1] * b[1] + a[2] * b[2]

\* SparkPointToVisit.  Direction is kept unnormalised: it is only compared
\* through the alignments below
SparkPointToVisit(pointIndex, direction, size, equivalentPathLength, incomingSpringIndex) ==
    [ PointIndex           |-> pointIndex,
      Direction            |-> direction,
      Size                 |-> size,
      EquivalentPathLength |-> equivalentPathLength,
      IncomingSpringIndex  |-> incomingSpringIndex ]

\* an element of mSparksToRender
ElectricSpark(startPointIndex, startSize, endPointIndex, endSize) ==
    [ StartPointIndex |-> startPointIndex,
      StartSize       |-> startSize,
      EndPointIndex   |-> endPointIndex,
      EndSize         |-> endSize ]

\* the keep-the-nearest step of ApplySparkAt that forgets the distance of
\* the particle it keeps
KeepNearestPoint_AnyWithinRadius(nearest, squarePointDistanceX2, pointIndex) ==
    IF squarePointDistanceX2 < nearest.nearestDistanceX2
    THEN [nearest EXCEPT !.nearestPointIndex = pointIndex]
    ELSE nearest

\* the body of the loop of ApplySparkAt
KeepNearestPoint(nearest, squarePointDistanceX2, pointIndex) ==
    IF squarePointDistanceX2 < nearest.nearestDistanceX2
    THEN [nearestDistanceX2 |-> squarePointDistanceX2, nearestPointIndex |-> pointIndex]
    ELSE nearest

\* the loop of ApplySparkAt from pointIndex on, in the order of RawShipPoints
RECURSIVE NearestPointLoop(_, _, _, _)
NearestPointLoop(ship, targetPos, pointIndex, nearest) ==
    IF pointIndex \notin PointIndices(ship)
    THEN nearest
    ELSE NearestPointLoop(ship, targetPos, pointIndex + 1,
             KeepNearestPoint(nearest,
                              2 * squareLength(vecSub(GetPosition(ship, pointIndex), targetPos)),
                              pointIndex))

\* nearestPointIndex at the end of the loop of ApplySparkAt
NearestPointIndex(ship, targetPos) ==
    NearestPointLoop(ship, targetPos, 0,
                     [nearestDistanceX2 |-> NearestDistanceX2,
                      nearestPointIndex |-> NoneElementIndex]).nearestPointIndex

\* maxEquivalentPathLengthForThisInteraction
MaxEquivalentPathLengthForThisInteraction(counter) ==
    IF counter + 1 < MaxPathLength THEN counter + 1 ELSE MaxPathLength

\* calculateSparkSize
CalculateSparkSize(maxLength, pathLength) ==
    FAdd(F(20000), FDiv(FMul(FSub(FInt(1), F(20000)), FInt(maxLength - pathLength)), FInt(maxLength)))

\* the cosine of the angle between the spring from pointIndex and the
\* direction, as the signed square n / d of the normalised dot product
Alignment(ship, pointIndex, springIndex, direction) ==
    LET v == vecSub(GetPosition(ship, GetOtherEndpointIndex(ship, springIndex, pointIndex)),
                    GetPosition(ship, pointIndex))
    IN  [ n |-> Sign(vecDot(v, direction)) * vecDot(v, direction) * vecDot(v, direction),
          d |-> squareLength(v) * squareLength(direction) ]

\* a > b of two alignments
AlignmentGreater(a, b) == a.n * b.d > b.n * a.d

\* -1.0f and no spring: the initial value of the best springs
NoBestSpring == [spring |-> NoneElementIndex, alignment |-> [n |-> -1, d |-> 1]]

\* the ranking step of the best three springs
RankSpring(best, springIndex, alignment) ==
    IF AlignmentGreater(alignment, best[1].alignment)
    THEN << [spring |-> springIndex, alignment |-> alignment], best[1], best[2] >>
    ELSE IF AlignmentGreater(alignment, best[2].alignment)
    THEN << best[1], [spring |-> springIndex, alignment |-> alignment], best[2] >>
    ELSE IF AlignmentGreater(alignment, best[3].alignment)
    THEN << best[1], best[2], [spring |-> springIndex, alignment |-> alignment] >>
    ELSE best

\* the ranking loop over the connected springs from position i on: the
\* springs not electrified in the previous interaction, other than the
\* incoming one, that lead to a particle not yet electrified
RECURSIVE RankSprings(_, _, _, _, _, _)
RankSprings(x, ship, pv, springs, i, best) ==
    IF i > Len(springs) THEN best
    ELSE IF /\ ~ x.wasSpringElectrifiedInPreviousInteraction[springs[i]]
            /\ springs[i] # pv.IncomingSpringIndex
            /\ ~ x.mIsPointElectrified[GetOtherEndpointIndex(ship, springs[i], pv.PointIndex)]
         THEN RankSprings(x, ship, pv, springs, i + 1,
                          RankSpring(best, springs[i],
                                     Alignment(ship, pv.PointIndex, springs[i], pv.Direction)))
         ELSE RankSprings(x, ship, pv, springs, i + 1, best)

\* the pick among the best springs: the second best if there is one and it
\* is not against the direction, otherwise the best if there is one
PickSpring(best) ==
    IF best[2].spring # NoneElementIndex /\ best[2].alignment.n >= 0
    THEN << best[2].spring >>
    ELSE IF best[1].spring # NoneElementIndex
    THEN << best[1].spring >>
    ELSE << >>

\* a mutation of the alignment test: a spring across the direction counts
IsAlignedWith_OrAcross(alignment) == alignment.n >= 0

\* alignment > 0.0f
IsAlignedWith(alignment) == alignment.n > 0

\* the outgoing springs that were electrified in the previous interaction,
\* are not the incoming one, lead to a particle not yet electrified, and are
\* aligned with the incoming direction
PreviouslyElectrifiedSprings(x, ship, pv) ==
    SelectSeq(ConnectedSpringsInOrder(ship, pv.PointIndex),
              LAMBDA s :
                  /\ x.wasSpringElectrifiedInPreviousInteraction[s]
                  /\ s # pv.IncomingSpringIndex
                  /\ ~ x.mIsPointElectrified[GetOtherEndpointIndex(ship, s, pv.PointIndex)]
                  /\ IsAlignedWith(Alignment(ship, pv.PointIndex, s, pv.Direction)))

DoFindNewSpring(nextSprings) == Len(nextSprings) = 0

\* a mutation of the fork decision: a fork is taken whenever it is drawn
DoFork_Again(x, nextSprings, random) ==
    Len(nextSprings) = 1 /\ random.fork

DoFork(x, nextSprings, random) ==
    Len(nextSprings) = 1 /\ ~ x.hasForkedInThisInteraction /\ random.fork

DoReroute(nextSprings, random) == Len(nextSprings) = 1 /\ random.reroute

\* nextSprings after the choice of a new spring
WithNewSpring(x, ship, pv, random, nextSprings) ==
    IF DoFindNewSpring(nextSprings) \/ DoFork(x, nextSprings, random) \/ DoReroute(nextSprings, random)
    THEN nextSprings \o PickSpring(RankSprings(x, ship, pv,
                                               ConnectedSpringsInOrder(ship, pv.PointIndex), 1,
                                               << NoBestSpring, NoBestSpring, NoBestSpring >>))
    ELSE nextSprings

\* nextSprings after the reroute: the previously electrified spring is dropped
Rerouted(doReroute, nextSprings) ==
    IF doReroute /\ Len(nextSprings) = 2 THEN Tail(nextSprings) ELSE nextSprings

\* a mutation of the test that queues a visit: the budget itself still counts
IsQueuedForNextExpansion_AtBudget(equivalentPathLength, maxLength) ==
    equivalentPathLength <= maxLength

\* the test that queues the end of an arc for the next expansion
IsQueuedForNextExpansion(equivalentPathLength, maxLength) ==
    equivalentPathLength < maxLength

\* an entry of the history of the arcs: the spring followed, the particle
\* it leaves, the path length at its start and at its end, and whether it
\* is an arc of the jump start
ArcPath(springIndex, fromPointIndex, startPathLength, endPathLength, isStartingArc) ==
    [ spring          |-> springIndex,
      from            |-> fromPointIndex,
      startPathLength |-> startPathLength,
      endPathLength   |-> endPathLength,
      isStartingArc   |-> isStartingArc ]

\* the arc along spring s from the visited particle, and the visit queued
\* for the next expansion
FollowSpring(x, ship, pv, s, targetEndpointIndex, maxLength) ==
    [x EXCEPT
       !.isSpringElectrifiedInThisInteraction[s] = TRUE,
       !.mIsPointElectrified[targetEndpointIndex] = TRUE,
       !.mSparksToRender =
           Append(@, ElectricSpark(pv.PointIndex, pv.Size, targetEndpointIndex,
                                   CalculateSparkSize(maxLength, pv.EquivalentPathLength + 1))),
       !.nextPointsToVisit =
           IF IsQueuedForNextExpansion(pv.EquivalentPathLength + 1, maxLength)
           THEN Append(@, SparkPointToVisit(
                              targetEndpointIndex,
                              vecSub(GetPosition(ship, targetEndpointIndex),
                                     GetPosition(ship, pv.PointIndex)),
                              CalculateSparkSize(maxLength, pv.EquivalentPathLength + 1),
                              pv.EquivalentPathLength + 1,
                              s))
           ELSE @,
       !.history.arcs =
           Append(@, ArcPath(s, pv.PointIndex, pv.EquivalentPathLength,
                             pv.EquivalentPathLength + 1, FALSE)),
       !.history.queued =
           IF IsQueuedForNextExpansion(pv.EquivalentPathLength + 1, maxLength)
           THEN Append(@, pv.EquivalentPathLength + 1)
           ELSE @]

\* the loop that follows nextSprings from position i on
RECURSIVE FollowSprings(_, _, _, _, _, _)
FollowSprings(x, ship, pv, nextSprings, i, maxLength) ==
    IF i > Len(nextSprings) THEN x
    ELSE IF ~ x.mIsPointElectrified[GetOtherEndpointIndex(ship, nextSprings[i], pv.PointIndex)]
         THEN FollowSprings(
                  FollowSpring(x, ship, pv, nextSprings[i],
                               GetOtherEndpointIndex(ship, nextSprings[i], pv.PointIndex),
                               maxLength),
                  ship, pv, nextSprings, i + 1, maxLength)
         ELSE FollowSprings(x, ship, pv, nextSprings, i + 1, maxLength)

\* an entry of the history of the visits: the particle visited and how it
\* was reached, the particles electrified and the fork flag when the visit
\* began, the springs selected first, the three decisions, the springs
\* after the choice of a new spring, and the springs that are followed
Visit(x, pv, selectedFirst, doFork, doReroute, withNewSpring) ==
    [ PointIndex          |-> pv.PointIndex,
      IncomingSpringIndex |-> pv.IncomingSpringIndex,
      Direction           |-> pv.Direction,
      EquivalentPathLength |-> pv.EquivalentPathLength,
      round               |-> x.history.rounds + 1,
      electrifiedPoints   |-> {p \in DOMAIN x.mIsPointElectrified : x.mIsPointElectrified[p]},
      hasForkedBefore     |-> x.hasForkedInThisInteraction,
      selectedFirst       |-> selectedFirst,
      doFindNewSpring     |-> DoFindNewSpring(selectedFirst),
      doFork              |-> doFork,
      doReroute           |-> doReroute,
      withNewSpring       |-> withNewSpring,
      nextSprings         |-> Rerouted(doReroute, withNewSpring) ]

\* the visit of one particle, given the previously electrified springs that
\* leave it
VisitPointAlong(x, ship, pv, random, maxLength, nextSprings) ==
    FollowSprings(
        [x EXCEPT !.hasForkedInThisInteraction = @ \/ DoFork(x, nextSprings, random),
                  !.history.visits =
                      Append(@, Visit(x, pv, nextSprings,
                                      DoFork(x, nextSprings, random),
                                      DoReroute(nextSprings, random),
                                      WithNewSpring(x, ship, pv, random, nextSprings)))],
        ship, pv,
        Rerouted(DoReroute(nextSprings, random),
                 WithNewSpring(x, ship, pv, random, nextSprings)),
        1, maxLength)

\* the body of the loop over currentPointsToVisit
VisitPoint(x, ship, pv, random, maxLength) ==
    VisitPointAlong(x, ship, pv, random, maxLength, PreviouslyElectrifiedSprings(x, ship, pv))

\* the loop over currentPointsToVisit from position i on
RECURSIVE VisitPoints(_, _, _, _, _, _)
VisitPoints(x, ship, currentPointsToVisit, i, random, maxLength) ==
    IF i > Len(currentPointsToVisit) THEN x
    ELSE VisitPoints(VisitPoint(x, ship, currentPointsToVisit[i], random, maxLength),
                     ship, currentPointsToVisit, i + 1, random, maxLength)

\* the expansions: until there is no particle left to visit.
\* AdvanceExpansion is the end of one expansion: the particles queued become
\* the particles to visit
RECURSIVE Expand(_, _, _, _, _)
RECURSIVE AdvanceExpansion(_, _, _, _)
AdvanceExpansion(visited, ship, random, maxLength) ==
    Expand([visited EXCEPT !.nextPointsToVisit = << >>], ship,
           visited.nextPointsToVisit, random, maxLength)

Expand(x, ship, currentPointsToVisit, random, maxLength) ==
    IF currentPointsToVisit = << >> THEN x
    ELSE AdvanceExpansion(
             [VisitPoints(x, ship, currentPointsToVisit, 1, random, maxLength)
                 EXCEPT !.history.rounds = @ + 1],
             ship, random, maxLength)

\* the insertion of a spring into the springs sorted by the seed of their
\* other endpoint
RECURSIVE InsertBySeed(_, _, _, _)
InsertBySeed(ship, pointIndex, sorted, s) ==
    IF sorted = << >> THEN << s >>
    ELSE IF PersonalitySeed(GetOtherEndpointIndex(ship, s, pointIndex))
              < PersonalitySeed(GetOtherEndpointIndex(ship, Head(sorted), pointIndex))
         THEN << s >> \o sorted
         ELSE << Head(sorted) >> \o InsertBySeed(ship, pointIndex, Tail(sorted), s)

\* std::sort of otherSprings by seed
RECURSIVE SortBySeed(_, _, _, _)
SortBySeed(ship, pointIndex, otherSprings, i) ==
    IF i > Len(otherSprings) THEN << >>
    ELSE InsertBySeed(ship, pointIndex,
                      SortBySeed(ship, pointIndex, otherSprings, i + 1), otherSprings[i])

\* the first loop of the jump start, from position i of the connected
\* springs on: the previously electrified springs are taken while there is
\* room, the others are collected
RECURSIVE CollectStartingSprings(_, _, _, _, _)
CollectStartingSprings(x, springs, i, startingArcsCount, collected) ==
    IF i > Len(springs) THEN collected
    ELSE IF /\ x.wasSpringElectrifiedInPreviousInteraction[springs[i]]
            /\ Len(collected.startingSprings) < startingArcsCount
         THEN CollectStartingSprings(x, springs, i + 1, startingArcsCount,
                  [collected EXCEPT !.startingSprings = Append(@, springs[i])])
         ELSE CollectStartingSprings(x, springs, i + 1, startingArcsCount,
                  [collected EXCEPT !.otherSprings = Append(@, springs[i])])

\* the winners among the sorted remaining springs
PickWinners(startingSprings, sortedOtherSprings, startingArcsCount) ==
    startingSprings
      \o SubSeq(sortedOtherSprings, 1,
                IF startingArcsCount - Len(startingSprings) < Len(sortedOtherSprings)
                THEN startingArcsCount - Len(startingSprings)
                ELSE Len(sortedOtherSprings))

\* startingSprings of the jump start
StartingSpringsOf(ship, startingPointIndex, startingArcsCount, collected) ==
    PickWinners(collected.startingSprings,
                SortBySeed(ship, startingPointIndex, collected.otherSprings, 1),
                startingArcsCount)

StartingSprings(x, ship, startingPointIndex, startingArcsCount) ==
    StartingSpringsOf(ship, startingPointIndex, startingArcsCount,
        CollectStartingSprings(x, ConnectedSpringsInOrder(ship, startingPointIndex), 1,
                               startingArcsCount,
                               [startingSprings |-> << >>, otherSprings |-> << >>]))

\* a mutation of the arc along a starting spring: the particle it reaches is
\* not marked as electrified
StartArc_PointNotElectrified(x, ship, startingPointIndex, s, targetEndpointIndex, maxLength) ==
    [x EXCEPT
       !.mSparksToRender =
           Append(@, ElectricSpark(startingPointIndex, CalculateSparkSize(maxLength, 0),
                                   targetEndpointIndex, CalculateSparkSize(maxLength, 1))),
       !.nextPointsToVisit =
           IF IsQueuedForNextExpansion(1, maxLength)
           THEN Append(@, SparkPointToVisit(
                              targetEndpointIndex,
                              vecSub(GetPosition(ship, targetEndpointIndex),
                                     GetPosition(ship, startingPointIndex)),
                              CalculateSparkSize(maxLength, 1), 1, s))
           ELSE @,
       !.history.arcs = Append(@, ArcPath(s, startingPointIndex, 0, 1, TRUE)),
       !.history.queued = IF IsQueuedForNextExpansion(1, maxLength) THEN Append(@, 1) ELSE @]

\* the arc along a starting spring: the spring itself is not electrified
StartArc(x, ship, startingPointIndex, s, targetEndpointIndex, maxLength) ==
    [x EXCEPT
       !.mIsPointElectrified[targetEndpointIndex] = TRUE,
       !.mSparksToRender =
           Append(@, ElectricSpark(startingPointIndex, CalculateSparkSize(maxLength, 0),
                                   targetEndpointIndex, CalculateSparkSize(maxLength, 1))),
       !.nextPointsToVisit =
           IF IsQueuedForNextExpansion(1, maxLength)
           THEN Append(@, SparkPointToVisit(
                              targetEndpointIndex,
                              vecSub(GetPosition(ship, targetEndpointIndex),
                                     GetPosition(ship, startingPointIndex)),
                              CalculateSparkSize(maxLength, 1), 1, s))
           ELSE @,
       !.history.arcs = Append(@, ArcPath(s, startingPointIndex, 0, 1, TRUE)),
       !.history.queued = IF IsQueuedForNextExpansion(1, maxLength) THEN Append(@, 1) ELSE @]

\* the loop over the starting springs from position i on
RECURSIVE StartArcs(_, _, _, _, _, _)
StartArcs(x, ship, startingPointIndex, startingSprings, i, maxLength) ==
    IF i > Len(startingSprings) THEN x
    ELSE StartArcs(StartArc(x, ship, startingPointIndex, startingSprings[i],
                            GetOtherEndpointIndex(ship, startingSprings[i], startingPointIndex),
                            maxLength),
                   ship, startingPointIndex, startingSprings, i + 1, maxLength)

\* a mutation of the initialisation: the backup buffer is not cleared
InitializeSparks_NoFill(sparks, startingPointIndex, counter) ==
    [ wasSpringElectrifiedInPreviousInteraction |-> sparks.mIsSpringElectrified,
      isSpringElectrifiedInThisInteraction |-> sparks.mIsSpringElectrifiedBackup,
      mIsPointElectrified |->
          [p \in DOMAIN sparks.mIsPointElectrified |-> p = startingPointIndex],
      mSparksToRender |-> << >>,
      nextPointsToVisit |-> << >>,
      hasForkedInThisInteraction |-> FALSE,
      history |-> [NoSparkHistory EXCEPT !.counter = << counter >>] ]

\* the initialisation of PropagateSparks: the buffers of the springs, the
\* marks of the particles, and the arcs
InitializeSparks(sparks, startingPointIndex, counter) ==
    [ wasSpringElectrifiedInPreviousInteraction |-> sparks.mIsSpringElectrified,
      isSpringElectrifiedInThisInteraction |->
          [s \in DOMAIN sparks.mIsSpringElectrifiedBackup |-> FALSE],
      mIsPointElectrified |->
          [p \in DOMAIN sparks.mIsPointElectrified |-> p = startingPointIndex],
      mSparksToRender |-> << >>,
      nextPointsToVisit |-> << >>,
      hasForkedInThisInteraction |-> FALSE,
      history |-> [NoSparkHistory EXCEPT !.counter = << counter >>] ]

\* the end of PropagateSparks: the buffers are swapped and the arcs are
\* marked as populated
FinalizeSparks(x) ==
    [ mIsSpringElectrified       |-> x.isSpringElectrifiedInThisInteraction,
      mIsSpringElectrifiedBackup |-> x.wasSpringElectrifiedInPreviousInteraction,
      mIsPointElectrified        |-> x.mIsPointElectrified,
      mAreSparksPopulatedBeforeNextUpdate |-> TRUE,
      mSparksToRender            |-> x.mSparksToRender,
      history                    |-> [x.history EXCEPT
                                        !.read = x.wasSpringElectrifiedInPreviousInteraction] ]

\* the jump start and the expansions
PropagateSparksFrom(x, ship, startingPointIndex, random, maxLength) ==
    AdvanceExpansion(
        StartArcs(x, ship, startingPointIndex,
                  StartingSprings(x, ship, startingPointIndex, random.startingArcsCount),
                  1, maxLength),
        ship, random, maxLength)

\* ShipElectricSparks::PropagateSparks
PropagateSparks(sparks, ship, startingPointIndex, counter, random) ==
    FinalizeSparks(
        PropagateSparksFrom(InitializeSparks(sparks, startingPointIndex, counter), ship,
                            startingPointIndex, random,
                            MaxEquivalentPathLengthForThisInteraction(counter)))

\* the two outcomes of ApplySparkAt, by the particle found
ApplySparkFrom(sparks, ship, nearestPointIndex, counter, random) ==
    IF nearestPointIndex # NoneElementIndex
    THEN [ sparks |-> PropagateSparks(sparks, ship, nearestPointIndex, counter, random),
           result |-> TRUE,
           startingPointIndex |-> nearestPointIndex ]
    ELSE [ sparks |-> sparks, result |-> FALSE, startingPointIndex |-> NoneElementIndex ]

\* ShipElectricSparks::ApplySparkAt.  startingPointIndex is a history
\* field: the particle handed to PropagateSparks
ShipElectricSparks_ApplySparkAt(sparks, ship, targetPos, counter, random) ==
    ApplySparkFrom(sparks, ship, NearestPointIndex(ship, targetPos), counter, random)

\* a mutation of the Update: the arcs are cleared at every Update
ShipElectricSparks_Update_ClearsAlways(sparks) ==
    [sparks EXCEPT
       !.mSparksToRender = << >>,
       !.mAreSparksPopulatedBeforeNextUpdate = FALSE]

\* ShipElectricSparks::Update
ShipElectricSparks_Update(sparks) ==
    [sparks EXCEPT
       !.mSparksToRender = IF ~ sparks.mAreSparksPopulatedBeforeNextUpdate THEN << >> ELSE @,
       !.mAreSparksPopulatedBeforeNextUpdate = FALSE]

----------------------------------------------------------------------------
(* The phase durations and coefficients of the interactive wave *)

\* SWEInteractiveWaveStateMachine::CalculateRisingPhaseDuration:
\* max(2.53079 - 2.572298 * e^(-9.031207 * |deltaHeight|), 0)
CalculateRisingPhaseDuration(deltaHeight) ==
    StdMax(FSub(F(253079), FMul(F(257230), ExpNeg(FMul(F(903121), FAbs(deltaHeight))))), F(0))

\* SWEInteractiveWaveStateMachine::CalculateFallingPhaseDecayCoefficient:
\* 0.65 - (0.65 - 0.025) * SmoothStep(0, 0.1, |deltaHeight|)
CalculateFallingPhaseDecayCoefficient(deltaHeight) ==
    FSub(F(65000), FMul(FSub(F(65000), F(2500)), SmoothStep(F(0), F(10000), FAbs(deltaHeight))))

----------------------------------------------------------------------------
(* OceanSurface::SWEInteractiveWaveStateMachine *)

\* the constructor
NewInteractiveWave(centerIndex, startHeight, targetHeight, currentSimulationTime) ==
    [ mCenterIndex                  |-> centerIndex,
      mOriginalHeight               |-> startHeight,
      mCurrentPhaseStartHeight      |-> startHeight,
      mCurrentPhaseTargetHeight     |-> targetHeight,
      mCurrentHeight                |-> startHeight,
      mStartSimulationTime          |-> currentSimulationTime,
      mCurrentWavePhase             |-> "Rise",
      mRisingPhaseDuration          |-> CalculateRisingPhaseDuration(FSub(targetHeight, startHeight)),
      mFallingPhaseDecayCoefficient |-> F(0) ]

\* Restart during rise, with the progress fraction, the new duration and the
\* value fraction it calculates
InteractiveWave_Restarted(m, restartHeight, currentSimulationTime, progressFraction, newDuration, valueFraction) ==
    [m EXCEPT
       !.mStartSimulationTime = FSub(currentSimulationTime, FMul(newDuration, progressFraction)),
       !.mCurrentPhaseTargetHeight = restartHeight,
       !.mCurrentPhaseStartHeight =
           FDiv(FSub(m.mCurrentHeight, FMul(restartHeight, valueFraction)),
                FSub(FInt(1), valueFraction)),
       !.mRisingPhaseDuration = newDuration]

\* Restart during rise, with the progress fraction it calculates
InteractiveWave_RestartAtProgress(m, restartHeight, currentSimulationTime, progressFraction) ==
    InteractiveWave_Restarted(m, restartHeight, currentSimulationTime, progressFraction,
                              CalculateRisingPhaseDuration(FSub(restartHeight, m.mOriginalHeight)),
                              SmoothStep(F(0), FInt(1), progressFraction))

\* Restart during rise: the current smoothing is extended
InteractiveWave_RestartDuringRise(m, restartHeight, currentSimulationTime) ==
    InteractiveWave_RestartAtProgress(
        m, restartHeight, currentSimulationTime,
        StdMin(FDiv(FSub(currentSimulationTime, m.mStartSimulationTime), m.mRisingPhaseDuration),
               F(90000)))

\* Restart during fall: the rise starts from scratch
InteractiveWave_RestartDuringFall(m, restartHeight, currentSimulationTime) ==
    [m EXCEPT
       !.mCurrentPhaseStartHeight = m.mCurrentHeight,
       !.mCurrentPhaseTargetHeight = restartHeight,
       !.mStartSimulationTime = currentSimulationTime,
       !.mCurrentWavePhase = "Rise",
       !.mRisingPhaseDuration = CalculateRisingPhaseDuration(FSub(restartHeight, m.mOriginalHeight))]

\* SWEInteractiveWaveStateMachine::Restart
InteractiveWave_Restart(m, restartHeight, currentSimulationTime) ==
    IF m.mCurrentWavePhase = "Rise"
    THEN InteractiveWave_RestartDuringRise(m, restartHeight, currentSimulationTime)
    ELSE InteractiveWave_RestartDuringFall(m, restartHeight, currentSimulationTime)

\* SWEInteractiveWaveStateMachine::Release
InteractiveWave_Release(m, currentSimulationTime) ==
    [m EXCEPT
       !.mCurrentPhaseStartHeight = m.mCurrentHeight,
       !.mCurrentPhaseTargetHeight = m.mOriginalHeight,
       !.mStartSimulationTime = currentSimulationTime,
       !.mCurrentWavePhase = "Fall",
       !.mFallingPhaseDecayCoefficient =
           CalculateFallingPhaseDecayCoefficient(FSub(m.mCurrentHeight, m.mOriginalHeight))]

\* the height of the rising phase at the given time
InteractiveWave_RisingHeight(m, currentSimulationTime) ==
    FAdd(m.mCurrentPhaseStartHeight,
         FMul(FSub(m.mCurrentPhaseTargetHeight, m.mCurrentPhaseStartHeight),
              SmoothStep(F(0), m.mRisingPhaseDuration,
                         FSub(currentSimulationTime, m.mStartSimulationTime))))

\* a mutation of the decay: the whole remaining displacement and the decayed
\* part of it are taken, so that the height passes the target
InteractiveWave_FallingHeight_Overshoot(m) ==
    FAdd(m.mCurrentHeight,
         FMul(FSub(m.mCurrentPhaseTargetHeight, m.mCurrentHeight),
              FAdd(FInt(1), m.mFallingPhaseDecayCoefficient)))

\* the height of the falling phase after one more step of the decay
InteractiveWave_FallingHeight(m) ==
    FAdd(m.mCurrentHeight,
         FMul(FSub(m.mCurrentPhaseTargetHeight, m.mCurrentHeight), m.mFallingPhaseDecayCoefficient))

\* whether it's time to shut down: std::abs(target - current) < 0.001f
InteractiveWave_IsShutDown(m, currentHeight) ==
    FLess(FAbs(FSub(m.mCurrentPhaseTargetHeight, currentHeight)), F(100))

\* the machine at its new height, and the optional returned: << >> or the height
InteractiveWave_Updated(m, currentHeight, isShutDown) ==
    [ machine     |-> [m EXCEPT !.mCurrentHeight = currentHeight],
      heightValue |-> IF isShutDown THEN << >> ELSE << currentHeight >> ]

\* the falling phase of Update, with the height it calculates
InteractiveWave_Fallen(m, currentHeight) ==
    InteractiveWave_Updated(m, currentHeight, InteractiveWave_IsShutDown(m, currentHeight))

\* SWEInteractiveWaveStateMachine::Update
InteractiveWave_Update(m, currentSimulationTime) ==
    IF m.mCurrentWavePhase = "Rise"
    THEN InteractiveWave_Updated(m, InteractiveWave_RisingHeight(m, currentSimulationTime), FALSE)
    ELSE InteractiveWave_Fallen(m, InteractiveWave_FallingHeight(m))

\* SWEInteractiveWaveStateMachine::MayBeOverridden
InteractiveWave_MayBeOverridden(m) ==
    /\ m.mCurrentWavePhase = "Fall"
    /\ FLess(FAbs(FSub(m.mCurrentPhaseTargetHeight, m.mCurrentHeight)), F(20000))

----------------------------------------------------------------------------
(* OceanSurface::SWEAbnormalWaveStateMachine *)

\* the constructor
NewAbnormalWave(centerIndex, lowHeight, highHeight, riseDelay, fallDelay, currentSimulationTime) ==
    [ mCenterIndex                     |-> centerIndex,
      mLowHeight                       |-> lowHeight,
      mHighHeight                      |-> highHeight,
      mFallDelay                       |-> fallDelay,
      mCurrentProgress                 |-> F(0),
      mCurrentPhaseStartSimulationTime |-> currentSimulationTime,
      mCurrentPhaseDelay               |-> riseDelay,
      mCurrentWavePhase                |-> "Rise" ]

\* a mutation of the sinusoidal progress: the progress is not capped at 1
AbnormalWave_SinProgress_Uncapped(progress) ==
    FMul(progress, SinHalfPi(FInt(1)))

\* sin(Pi / 2 * min(progress, 1))
AbnormalWave_SinProgress(progress) ==
    SinHalfPi(StdMin(progress, FInt(1)))

\* the height at the sinusoidal progress
AbnormalWave_Height(m, sinProgress) ==
    IF m.mCurrentWavePhase = "Rise"
    THEN FAdd(m.mLowHeight, FMul(FSub(m.mHighHeight, m.mLowHeight), sinProgress))
    ELSE FSub(m.mHighHeight, FMul(FSub(m.mHighHeight, m.mLowHeight), sinProgress))

\* the machine after the update, and the optional returned: << >> or the height
AbnormalWave_Updated(m, currentSimulationTime, progress, currentHeight) ==
    IF FGreaterEq(progress, FInt(1))
    THEN IF m.mCurrentWavePhase = "Rise"
         THEN [ machine     |-> [m EXCEPT
                                    !.mCurrentProgress = F(0),
                                    !.mCurrentPhaseStartSimulationTime = currentSimulationTime,
                                    !.mCurrentPhaseDelay = m.mFallDelay,
                                    !.mCurrentWavePhase = "Fall"],
                heightValue |-> << currentHeight >> ]
         ELSE [ machine     |-> [m EXCEPT !.mCurrentProgress = progress],
                heightValue |-> << >> ]
    ELSE [ machine     |-> [m EXCEPT !.mCurrentProgress = progress],
           heightValue |-> << currentHeight >> ]

\* Update, with the progress it calculates
AbnormalWave_UpdateAtProgress(m, currentSimulationTime, progress) ==
    AbnormalWave_Updated(m, currentSimulationTime, progress,
                         AbnormalWave_Height(m, AbnormalWave_SinProgress(progress)))

\* SWEAbnormalWaveStateMachine::Update
AbnormalWave_Update(m, currentSimulationTime) ==
    AbnormalWave_UpdateAtProgress(
        m, currentSimulationTime,
        FDiv(FSub(currentSimulationTime, m.mCurrentPhaseStartSimulationTime), m.mCurrentPhaseDelay))

----------------------------------------------------------------------------
(* OceanSurface: the grid *)

\* the number of samples of the visible ocean
SamplesCount == 4

SWEWaveGenerationSamples == 1

SWEBoundaryConditionsSamples == 3

SWEOuterLayerSamples == SWEWaveGenerationSamples + SWEBoundaryConditionsSamples

SWETotalSamples == SWEOuterLayerSamples + SamplesCount + SWEOuterLayerSamples

SWEWaveStateMachinePerturbedSamplesCount == 3

\* the width of the window the delta-height is averaged on
DeltaHeightSmoothing == 3

SWEHeightFieldOffset == FInt(10)

SWEHeightFieldAmplification == FInt(50)

\* GameParameters::SimulationStepTimeDuration
SimulationStepTimeDuration == FInt(2)

\* GameParameters::GravityMagnitude
GravityMagnitude == F(980000)

\* SimulationStepTimeDuration / Dx
FactorH == F(1000)

\* FactorH * GravityMagnitude
FactorV == FMul(FactorH, GravityMagnitude)

\* the cells of the height and velocity fields: one extra cell at the end
FieldIndices == 0..SWETotalSamples

\* the cells of the delta-height buffer: the samples and, at each side, the
\* half window the smoothing reads
DeltaHeightIndices == (0 - (DeltaHeightSmoothing \div 2))..(SamplesCount - 1 + (DeltaHeightSmoothing \div 2))

\* GameWallClock::time_point::max()
TimePointMax == 2000000

\* std::chrono::minutes::max()
MinutesMax == 1000000

\* the grace period between abnormal waves, in seconds
AbnormalWaveGracePeriod == 120

\* the steps of an Update, appended to the history of the steps
Traced(o, step) == [o EXCEPT !.trace = Append(@, step)]

\* OceanSurface::OceanSurface
NewOceanSurface(now) ==
    [ mSamples                        |-> [i \in 0..SamplesCount |-> F(0)],
      mBasalWaveCoefficients          |-> << >>,
      mNextTsunamiTimestamp           |-> TimePointMax,
      mNextRogueWaveTimestamp         |-> TimePointMax,
      mWindBaseAndStormSpeedMagnitude |-> PosInf,
      mBasalWaveHeightAdjustment      |-> PosInf,
      mBasalWaveLengthAdjustment      |-> PosInf,
      mBasalWaveSpeedAdjustment       |-> PosInf,
      mTsunamiRate                    |-> MinutesMax,
      mRogueWaveRate                  |-> MinutesMax,
      mHeightField                    |-> [i \in FieldIndices |-> SWEHeightFieldOffset],
      mVelocityField                  |-> [i \in FieldIndices |-> F(0)],
      mDeltaHeightBuffer              |-> [i \in DeltaHeightIndices |-> F(0)],
      mSWEInteractiveWaveStateMachine |-> << >>,
      mSWETsunamiWaveStateMachine     |-> << >>,
      mSWERogueWaveWaveStateMachine   |-> << >>,
      mLastTsunamiTimestamp           |-> now,
      mLastRogueWaveTimestamp         |-> now,
      spawns                          |-> << >>,
      folded                          |-> << >>,
      trace                           |-> << >>,
      events                          |-> << >> ]

\* OceanSurface::SetSWEWaveHeight
SetSWEWaveHeight(o, centerIndex, height) ==
    LET firstSampleIndex == centerIndex - (SWEWaveStateMachinePerturbedSamplesCount \div 2)
        perturbed == {idx \in firstSampleIndex..(firstSampleIndex + SWEWaveStateMachinePerturbedSamplesCount - 1) :
                        /\ idx >= SWEBoundaryConditionsSamples
                        /\ idx < SWEOuterLayerSamples + SamplesCount + SWEWaveGenerationSamples}
    IN  [o EXCEPT !.mHeightField = [i \in FieldIndices |-> IF i \in perturbed THEN height ELSE @[i]]]

\* OceanSurface::RecalculateWaveCoefficients: the coefficients of the basal
\* waves are kept as the parameters they are calculated from
RecalculateWaveCoefficients(o, wind, gameParameters) ==
    [Traced(o, "RecalculateWaveCoefficients") EXCEPT
       !.mBasalWaveCoefficients = << wind.baseAndStormSpeedMagnitude,
                                     gameParameters.BasalWaveHeightAdjustment,
                                     gameParameters.BasalWaveLengthAdjustment,
                                     gameParameters.BasalWaveSpeedAdjustment >>,
       !.mWindBaseAndStormSpeedMagnitude = wind.baseAndStormSpeedMagnitude,
       !.mBasalWaveHeightAdjustment = gameParameters.BasalWaveHeightAdjustment,
       !.mBasalWaveLengthAdjustment = gameParameters.BasalWaveLengthAdjustment,
       !.mBasalWaveSpeedAdjustment = gameParameters.BasalWaveSpeedAdjustment]

\* a mutation of the next timestamp: the grace period is left out
CalculateNextAbnormalWaveTimestamp_NoGrace(lastTimestamp, rate, exponentialReal) ==
    lastTimestamp + exponentialReal

\* OceanSurface::CalculateNextAbnormalWaveTimestamp; exponentialReal is the
\* value drawn from the exponential distribution of the rate, in seconds
CalculateNextAbnormalWaveTimestamp(lastTimestamp, rate, exponentialReal) ==
    lastTimestamp + (AbnormalWaveGracePeriod + exponentialReal)

\* OceanSurface::RecalculateAbnormalWaveTimestamps
RecalculateAbnormalWaveTimestamps(o, gameParameters, random) ==
    [Traced(o, "RecalculateAbnormalWaveTimestamps") EXCEPT
       !.mNextTsunamiTimestamp =
           IF gameParameters.TsunamiRate > 0
           THEN CalculateNextAbnormalWaveTimestamp(o.mLastTsunamiTimestamp, gameParameters.TsunamiRate,
                                                   random.tsunamiExponentialReal)
           ELSE TimePointMax,
       !.mNextRogueWaveTimestamp =
           IF gameParameters.RogueWaveRate > 0
           THEN CalculateNextAbnormalWaveTimestamp(o.mLastRogueWaveTimestamp, gameParameters.RogueWaveRate,
                                                   random.rogueWaveExponentialReal)
           ELSE TimePointMax,
       !.mTsunamiRate = gameParameters.TsunamiRate,
       !.mRogueWaveRate = gameParameters.RogueWaveRate]

\* an entry of the history of the abnormal waves Update has generated: the
\* kind of wave, the time of the wall clock, and the timestamps of the next
\* and of the last wave of the kind that the check was made against
Spawned(kind, now, nextTimestamp, lastTimestamp) ==
    [ kind |-> kind, now |-> now, nextTimestamp |-> nextTimestamp, lastTimestamp |-> lastTimestamp ]

\* the event of OceanSurface
OceanEvent(name) == [event |-> name, gadgetId |-> << >>, gadgetType |-> "None"]

\* OceanSurface::TriggerTsunami; the world X and the height are drawn at random
TriggerTsunami(o, currentSimulationTime, random) ==
    LET centerIndex == SWEOuterLayerSamples + random.tsunamiSampleIndex
        tsunamiHeight == FAdd(random.tsunamiHeight, SWEHeightFieldOffset)
    IN  [o EXCEPT
           !.mSWETsunamiWaveStateMachine =
               << NewAbnormalWave(centerIndex, o.mHeightField[centerIndex], tsunamiHeight,
                                  FInt(7), FInt(5), currentSimulationTime) >>,
           !.events = Append(@, OceanEvent("OnTsunami"))]

\* OceanSurface::TriggerRogueWave; the height and the delay are drawn at random
TriggerRogueWave(o, currentSimulationTime, wind, random) ==
    LET centerIndex == IF FGreaterEq(wind.baseAndStormSpeedMagnitude, F(0))
                       THEN SWEBoundaryConditionsSamples
                       ELSE SWEOuterLayerSamples + SamplesCount
        rogueWaveHeight == FAdd(random.rogueWaveHeight, SWEHeightFieldOffset)
    IN  [o EXCEPT
           !.mSWERogueWaveWaveStateMachine =
               << NewAbnormalWave(centerIndex, o.mHeightField[centerIndex], rogueWaveHeight,
                                  random.rogueWaveDelay, random.rogueWaveDelay, currentSimulationTime) >>]

----------------------------------------------------------------------------
(* OceanSurface::Update *)

\* a wave state machine has been updated: it is done, or its height is applied
WaveUpdated(o, r) ==
    IF r.heightValue = << >> THEN o
    ELSE SetSWEWaveHeight(o, r.machine.mCenterIndex, r.heightValue[1])

\* the machine that goes on after an update, if any
WaveGoingOn(r) == IF r.heightValue = << >> THEN << >> ELSE << r.machine >>

\* the interactive wave has been updated
InteractiveWaveUpdated(o, r) ==
    WaveUpdated([o EXCEPT !.mSWEInteractiveWaveStateMachine = WaveGoingOn(r)], r)

\* the interactive wave is advanced: done, or its height is applied
AdvanceInteractiveWave(o, currentSimulationTime) ==
    IF o.mSWEInteractiveWaveStateMachine # << >>
    THEN InteractiveWaveUpdated(
             o, InteractiveWave_Update(o.mSWEInteractiveWaveStateMachine[1], currentSimulationTime))
    ELSE o

\* a mutation of the check of the tsunami time: the scheduled timestamp itself counts
IsTimeForAbnormalWave_AtTimestamp(now, nextTimestamp) == now >= nextTimestamp

\* now > mNextTsunamiTimestamp, now > mNextRogueWaveTimestamp
IsTimeForAbnormalWave(now, nextTimestamp) == now > nextTimestamp

\* the tsunami has been updated
TsunamiUpdated(o, r) ==
    WaveUpdated([o EXCEPT !.mSWETsunamiWaveStateMachine = WaveGoingOn(r)], r)

\* the tsunami is advanced, or generated when it is time to
AdvanceTsunami(o, currentSimulationTime, gameParameters, now, random) ==
    IF o.mSWETsunamiWaveStateMachine # << >>
    THEN TsunamiUpdated(
             o, AbnormalWave_Update(o.mSWETsunamiWaveStateMachine[1], currentSimulationTime))
    ELSE IF IsTimeForAbnormalWave(now, o.mNextTsunamiTimestamp)
         THEN [TriggerTsunami(o, currentSimulationTime, random) EXCEPT
                 !.mLastTsunamiTimestamp = now,
                 !.mNextTsunamiTimestamp =
                     CalculateNextAbnormalWaveTimestamp(now, gameParameters.TsunamiRate,
                                                        random.tsunamiExponentialReal),
                 !.events = Append(@, OceanEvent("DisturbOcean")),
                 !.spawns = Append(@, Spawned("Tsunami", now, o.mNextTsunamiTimestamp,
                                              o.mLastTsunamiTimestamp))]
         ELSE o

\* the rogue wave has been updated
RogueWaveUpdated(o, r) ==
    WaveUpdated([o EXCEPT !.mSWERogueWaveWaveStateMachine = WaveGoingOn(r)], r)

\* the rogue wave is advanced, or generated when it is time to
AdvanceRogueWave(o, currentSimulationTime, wind, gameParameters, now, random) ==
    IF o.mSWERogueWaveWaveStateMachine # << >>
    THEN RogueWaveUpdated(
             o, AbnormalWave_Update(o.mSWERogueWaveWaveStateMachine[1], currentSimulationTime))
    ELSE IF IsTimeForAbnormalWave(now, o.mNextRogueWaveTimestamp)
         THEN [TriggerRogueWave(o, currentSimulationTime, wind, random) EXCEPT
                 !.mLastRogueWaveTimestamp = now,
                 !.mNextRogueWaveTimestamp =
                     CalculateNextAbnormalWaveTimestamp(now, gameParameters.RogueWaveRate,
                                                        random.rogueWaveExponentialReal),
                 !.spawns = Append(@, Spawned("RogueWave", now, o.mNextRogueWaveTimestamp,
                                              o.mLastRogueWaveTimestamp))]
         ELSE o

\* 1. Advance SWE Wave State Machines
AdvanceWaveStateMachines(o, currentSimulationTime, wind, gameParameters, now, random) ==
    AdvanceRogueWave(
        AdvanceTsunami(
            AdvanceInteractiveWave(Traced(o, "AdvanceWaveStateMachines"), currentSimulationTime),
            currentSimulationTime, gameParameters, now, random),
        currentSimulationTime, wind, gameParameters, now, random)

\* a mutation of the damping: the outermost cell is damped like its neighbour
DampingOf_NeverZero(i) == FDiv(FInt(i + 1), FInt(SWEBoundaryConditionsSamples + 1))

\* the damping of boundary cell i
DampingOf(i) == FDiv(FInt(i), FInt(SWEBoundaryConditionsSamples))

\* the value of a cell that is damped towards rest
Damped(value, rest, damping) == FAdd(FMul(FSub(value, rest), damping), rest)

\* the damping of boundary cell i and of its mirror cell at the right end
ApplyDampingAt(h, v, i, right, damping) ==
    [ h |-> [h EXCEPT ![i] = Damped(h[i], SWEHeightFieldOffset, damping),
                      ![right] = Damped(h[right], SWEHeightFieldOffset, damping)],
      v |-> [v EXCEPT ![i] = FMul(v[i], damping),
                      ![right + 1] = FMul(v[right + 1], damping)] ]

\* OceanSurface::ApplyDampingBoundaryConditions, from boundary cell i on
RECURSIVE ApplyDampingLoop(_, _)
ApplyDampingLoop(fields, i) ==
    IF i >= SWEBoundaryConditionsSamples
    THEN fields
    ELSE ApplyDampingLoop(
             ApplyDampingAt(fields.h, fields.v, i,
                            SWEOuterLayerSamples + SamplesCount + SWEOuterLayerSamples - 1 - i,
                            DampingOf(i)),
             i + 1)

\* the fields are written back
WithFields(o, fields) ==
    [o EXCEPT !.mHeightField = fields.h, !.mVelocityField = fields.v]

\* OceanSurface::ApplyDampingBoundaryConditions
ApplyDampingBoundaryConditions(o) ==
    WithFields(Traced(o, "ApplyDampingBoundaryConditions"),
               ApplyDampingLoop([h |-> o.mHeightField, v |-> o.mVelocityField], 0))

\* the weighted sum of the lateral samples of sample i, from offset l on
RECURSIVE LateralSamples(_, _, _)
LateralSamples(buffer, i, l) ==
    IF l > DeltaHeightSmoothing \div 2 THEN F(0)
    ELSE FAdd(FAdd(FMul(buffer[i - l], FInt((DeltaHeightSmoothing \div 2) + 1 - l)),
                   FMul(buffer[i + l], FInt((DeltaHeightSmoothing \div 2) + 1 - l))),
              LateralSamples(buffer, i, l + 1))

\* the smoothed delta-height of sample i
SmoothedDeltaHeight(buffer, i) ==
    FMul(FMul(FDiv(FInt(1), FInt(DeltaHeightSmoothing)), FDiv(FInt(1), FInt(DeltaHeightSmoothing))),
         FAdd(FMul(buffer[i], FInt((DeltaHeightSmoothing \div 2) + 1)),
              LateralSamples(buffer, i, 1)))

\* UpdateFields 1: incorporate delta-height into height field, after smoothing;
\* the buffer that is incorporated is kept as history
IncorporateDeltaHeight(o) ==
    [Traced(o, "IncorporateDeltaHeight") EXCEPT
       !.folded = o.mDeltaHeightBuffer,
       !.mHeightField =
           [c \in FieldIndices |->
              IF c >= SWEOuterLayerSamples /\ c < SWEOuterLayerSamples + SamplesCount
              THEN FAdd(@[c], SmoothedDeltaHeight(o.mDeltaHeightBuffer, c - SWEOuterLayerSamples))
              ELSE @[c]]]

\* the new height of cell i
IntegratedHeight(h, v, i) ==
    FSub(h[i], FMul(FMul(h[i], FSub(v[i + 1], v[i])), FactorH))

\* a mutation of the new velocity: out of the height of the next cell, which
\* the pass has not updated yet
IntegratedVelocity_NextCell(h, v, i) ==
    FAdd(v[i], FMul(FSub(h[i], h[i + 1]), FactorV))

\* the new velocity of cell i, out of the new heights
IntegratedVelocity(h, v, i) ==
    FAdd(v[i], FMul(FSub(h[i - 1], h[i]), FactorV))

\* a mutation of the cell written: the velocity of the next cell, which for
\* the last cell of the loop is the cell at the end of the grid
IntegrateAt_NextVelocity(h, v, i) ==
    [ h |-> h, v |-> [v EXCEPT ![i + 1] = IntegratedVelocity(h, v, i)] ]

\* cell i with its new height, then with its new velocity
IntegrateAt(h, v, i) ==
    [ h |-> h, v |-> [v EXCEPT ![i] = IntegratedVelocity(h, v, i)] ]

\* UpdateFields 2, the loop from cell i on: the height of the cell, then its velocity
RECURSIVE IntegrateLoop(_, _)
IntegrateLoop(fields, i) ==
    IF i >= SWETotalSamples
    THEN fields
    ELSE IntegrateLoop(
             IntegrateAt([fields.h EXCEPT ![i] = IntegratedHeight(fields.h, fields.v, i)],
                         fields.v, i),
             i + 1)

\* UpdateFields 2: SWE update
IntegrateFields(o) ==
    WithFields(
        Traced(o, "IntegrateFields"),
        IntegrateLoop([ h |-> [o.mHeightField EXCEPT
                                 ![0] = IntegratedHeight(o.mHeightField, o.mVelocityField, 0)],
                        v |-> o.mVelocityField ],
                      1))

\* a mutation of the clearing: the buffer is kept
ClearDeltaHeightBuffer_Keep(o) ==
    Traced(o, "ClearDeltaHeightBuffer")

\* UpdateFields 3: clear delta-height buffer
ClearDeltaHeightBuffer(o) ==
    [Traced(o, "ClearDeltaHeightBuffer") EXCEPT
       !.mDeltaHeightBuffer = [i \in DeltaHeightIndices |-> F(0)]]

\* OceanSurface::UpdateFields
UpdateFields(o) ==
    ClearDeltaHeightBuffer(IntegrateFields(IncorporateDeltaHeight(o)))

\* OceanSurface::GenerateSamples: the samples are the amplified height field
\* of the visible cells; the basal waves and the wind ripples, which are null
\* without wind, are left out, so that with wind the samples are those of
\* the height field alone
GenerateSamples(o, currentSimulationTime, wind, gameParameters) ==
    [Traced(o, "GenerateSamples") EXCEPT
       !.mSamples =
           [i \in 0..SamplesCount |->
              LET cell == IF i < SamplesCount THEN i ELSE SamplesCount - 1
              IN  FMul(FSub(o.mHeightField[SWEOuterLayerSamples + cell], SWEHeightFieldOffset),
                       SWEHeightFieldAmplification)]]

\* a mutation of the check: the adjustment of the speed is not looked at
WaveParametersChanged_SpeedNotCompared(o, wind, gameParameters) ==
    \/ o.mWindBaseAndStormSpeedMagnitude # wind.baseAndStormSpeedMagnitude
    \/ o.mBasalWaveHeightAdjustment # gameParameters.BasalWaveHeightAdjustment
    \/ o.mBasalWaveLengthAdjustment # gameParameters.BasalWaveLengthAdjustment

\* the parameters of the waves have changed
WaveParametersChanged(o, wind, gameParameters) ==
    \/ o.mWindBaseAndStormSpeedMagnitude # wind.baseAndStormSpeedMagnitude
    \/ o.mBasalWaveHeightAdjustment # gameParameters.BasalWaveHeightAdjustment
    \/ o.mBasalWaveLengthAdjustment # gameParameters.BasalWaveLengthAdjustment
    \/ o.mBasalWaveSpeedAdjustment # gameParameters.BasalWaveSpeedAdjustment

\* the rates of the abnormal waves have changed
AbnormalWaveRatesChanged(o, gameParameters) ==
    \/ o.mTsunamiRate # gameParameters.TsunamiRate
    \/ o.mRogueWaveRate # gameParameters.RogueWaveRate

\* 0. the parameters are checked for changes
CheckParameters(o, wind, gameParameters) ==
    IF WaveParametersChanged(o, wind, gameParameters)
    THEN RecalculateWaveCoefficients(o, wind, gameParameters)
    ELSE o

\* 0. the rates of the abnormal waves are checked for changes
CheckAbnormalWaveRates(o, gameParameters, random) ==
    IF AbnormalWaveRatesChanged(o, gameParameters)
    THEN RecalculateAbnormalWaveTimestamps(o, gameParameters, random)
    ELSE o

\* the history of the last Update is forgotten
Untraced(o) == [o EXCEPT !.trace = << >>, !.events = << >>]

\* OceanSurface::Update.  now is the time of the wall clock at the call,
\* random the values the call draws from the random engine.
OceanSurface_Update(o, currentSimulationTime, wind, gameParameters, now, random) ==
    GenerateSamples(
        UpdateFields(
            ApplyDampingBoundaryConditions(
                AdvanceWaveStateMachines(
                    CheckAbnormalWaveRates(CheckParameters(Untraced(o), wind, gameParameters),
                                           gameParameters, random),
                    currentSimulationTime, wind, gameParameters, now, random))),
        currentSimulationTime, wind, gameParameters)

\* the height the interactive wave is to reach
InteractiveWaveTargetHeight(worldCoordinates) ==
    FAdd(Clamp(FDiv(worldCoordinates.y, SWEHeightFieldAmplification), FInt(-2), FInt(4)),
         SWEHeightFieldOffset)

\* AdjustTo with coordinates: the wave is started, or restarted
OceanSurface_StartOrRestart(o, centerIndex, targetHeight, currentSimulationTime) ==
    IF \/ o.mSWEInteractiveWaveStateMachine = << >>
       \/ InteractiveWave_MayBeOverridden(o.mSWEInteractiveWaveStateMachine[1])
    THEN [o EXCEPT !.mSWEInteractiveWaveStateMachine =
            << NewInteractiveWave(centerIndex, o.mHeightField[centerIndex],
                                  targetHeight, currentSimulationTime) >>]
    ELSE [o EXCEPT !.mSWEInteractiveWaveStateMachine =
            << InteractiveWave_Restart(o.mSWEInteractiveWaveStateMachine[1],
                                       targetHeight, currentSimulationTime) >>]

\* OceanSurface::AdjustTo.  worldCoordinates is << >> or a pair of the
\* sample index of the x and the y.
OceanSurface_AdjustTo(o, worldCoordinates, currentSimulationTime) ==
    IF worldCoordinates # << >>
    THEN OceanSurface_StartOrRestart(o, SWEOuterLayerSamples + worldCoordinates[1].sampleIndex,
                                     InteractiveWaveTargetHeight(worldCoordinates[1]),
                                     currentSimulationTime)
    ELSE [o EXCEPT !.mSWEInteractiveWaveStateMachine =
             << InteractiveWave_Release(o.mSWEInteractiveWaveStateMachine[1], currentSimulationTime) >>]

----------------------------------------------------------------------------
(* World *)

\* a mutation of the iteration order: begin() instead of rbegin()
ShipAtReverseIterator_Forward(ships, rit) == rit

\* *it for it = mAllShips.rbegin() + (rit - 1): the position in mAllShips
ShipAtReverseIterator(ships, rit) == Len(ships) - rit + 1

\* a mutation of the early return: the search goes on after a success
StopsAtShip_Never(toggled) == FALSE

\* if ((*it)->ToggleXxxAt(targetPos, gameParameters)) return;
StopsAtShip(toggled) == toggled.result

\* The loop shared by World::ToggleImpactBombAt, ToggleTimerBombAt,
\* ToggleRCBombAt, ToggleAntiMatterBombAt and TogglePinAt, from reverse
\* iterator position rit on.  invoked is history: the ShipIds asked, in order.
RECURSIVE World_ToggleLoop(_, _, _, _, _, _, _)
World_ToggleLoop(ships, rit, kind, targetPos, toolSearchRadius, invoked, events) ==
    IF rit > Len(ships)
    THEN [ships |-> ships, invoked |-> invoked, events |-> events]
    ELSE LET i == ShipAtReverseIterator(ships, rit)
             toggled == Ship_ToggleAt(ships[i], kind, targetPos, toolSearchRadius)
             after == [ships EXCEPT ![i] = toggled.ship]
         IN  IF StopsAtShip(toggled)
             THEN [ ships   |-> after,
                    invoked |-> Append(invoked, ships[i].shipId),
                    events  |-> events \o toggled.events ]
             ELSE World_ToggleLoop(after, rit + 1, kind, targetPos, toolSearchRadius,
                                   Append(invoked, ships[i].shipId), events \o toggled.events)

\* World::ToggleImpactBombAt
World_ToggleImpactBombAt(ships, targetPos, toolSearchRadius) ==
    World_ToggleLoop(ships, 1, "ImpactBomb", targetPos, toolSearchRadius, << >>, << >>)

\* World::ToggleTimerBombAt
World_ToggleTimerBombAt(ships, targetPos, toolSearchRadius) ==
    World_ToggleLoop(ships, 1, "TimerBomb", targetPos, toolSearchRadius, << >>, << >>)

\* World::ToggleRCBombAt
World_ToggleRCBombAt(ships, targetPos, toolSearchRadius) ==
    World_ToggleLoop(ships, 1, "RCBomb", targetPos, toolSearchRadius, << >>, << >>)

\* World::ToggleAntiMatterBombAt
World_ToggleAntiMatterBombAt(ships, targetPos, toolSearchRadius) ==
    World_ToggleLoop(ships, 1, "AntiMatterBomb", targetPos, toolSearchRadius, << >>, << >>)

\* World::TogglePinAt
World_TogglePinAt(ships, targetPos, toolSearchRadius) ==
    World_ToggleLoop(ships, 1, "Pin", targetPos, toolSearchRadius, << >>, << >>)

----------------------------------------------------------------------------
(* World: the interactions applied to all the ships *)

\* Ship::ApplyHeatBlasterAt, ExtinguishFireAt, FloodAt and ScrubThrough,
\* selected by kind: the ship answers whether any of its particles lies
\* within the radius of one of the positions handed, and keeps the
\* interaction in its applications
Ship_ApplyAt(ship, kind, positions, radius) ==
    LET squareRadius == radius * radius
        isApplied == \E p \in PointIndices(ship) : \E k \in DOMAIN positions :
                        squareLength(vecSub(GetPosition(ship, p), positions[k])) < squareRadius
    IN  [ ship   |-> [ship EXCEPT !.applications =
                         Append(@, [kind |-> kind, positions |-> positions,
                                    isApplied |-> isApplied])],
          result |-> isApplied ]

\* a mutation of the accumulation: the answer of the last ship only
IsAtLeastOneShipApplied_Last(atLeastOneShipApplied, isApplied) == isApplied

\* atLeastOneShipApplied |= isApplied;
IsAtLeastOneShipApplied(atLeastOneShipApplied, isApplied) == atLeastOneShipApplied \/ isApplied

\* for (auto & ship : mAllShips) of World::ApplyHeatBlasterAt,
\* ExtinguishFireAt, FloodAt and ScrubThrough, from position i of mAllShips
\* on.  invoked is history: the ShipIds asked with their answers, in order.
RECURSIVE World_ApplyLoop(_, _, _, _, _, _, _)
World_ApplyLoop(ships, i, kind, positions, radius, atLeastOneShipApplied, invoked) ==
    IF i > Len(ships)
    THEN [ships |-> ships, result |-> atLeastOneShipApplied, invoked |-> invoked]
    ELSE LET applied == Ship_ApplyAt(ships[i], kind, positions, radius)
         IN  World_ApplyLoop([ships EXCEPT ![i] = applied.ship], i + 1, kind, positions, radius,
                             IsAtLeastOneShipApplied(atLeastOneShipApplied, applied.result),
                             Append(invoked, [ shipId    |-> ships[i].shipId,
                                               isApplied |-> applied.result ]))

\* World::ApplyHeatBlasterAt
World_ApplyHeatBlasterAt(ships, targetPos, radius) ==
    World_ApplyLoop(ships, 1, "HeatBlaster", << targetPos >>, radius, FALSE, << >>)

\* World::ExtinguishFireAt
World_ExtinguishFireAt(ships, targetPos, radius) ==
    World_ApplyLoop(ships, 1, "ExtinguishFire", << targetPos >>, radius, FALSE, << >>)

\* World::FloodAt
World_FloodAt(ships, targetPos, radius) ==
    World_ApplyLoop(ships, 1, "Flood", << targetPos >>, radius, FALSE, << >>)

\* World::ScrubThrough
World_ScrubThrough(ships, startPos, endPos, radius) ==
    World_ApplyLoop(ships, 1, "Scrub", << startPos, endPos >>, radius, FALSE, << >>)

----------------------------------------------------------------------------
(* OceanSurface: the upload of the samples *)

\* the budget of slices of an upload
RenderSlices == 500

\* The ocean that is uploaded has more samples than the budget of slices, so
\* that both regimes of the upload occur.  Positions are whole numbers of a
\* unit of which Dx is four, and the floats of the upload are the exact
\* rationals [n, d] of these units.
RenderedSamplesCount == 1024

Dx == 4

HalfMaxWorldWidth == (RenderedSamplesCount * Dx) \div 2

Rational(n, d) == [n |-> n, d |-> d]

\* FastTruncateToArchInt of n / d, for d positive: towards zero
FastTruncateToArchInt(n, d) == IF n >= 0 THEN n \div d ELSE 0 - ((0 - n) \div d)

\* ceil of n / d, for d positive
Ceil(n, d) == 0 - ((0 - n) \div d)

\* the samples GenerateSamples leaves: the value of each sample and its
\* difference from the next, null for the last sample and for the extra one,
\* which repeats the last
SamplesOf(value, samplesCount) ==
    [i \in 0..samplesCount |->
       [ SampleValue |-> IF i < samplesCount THEN value[i] ELSE value[samplesCount - 1],
         SampleValuePlusOneMinusSampleValue |->
             IF i < samplesCount - 1 THEN value[i + 1] - value[i] ELSE 0 ]]

\* the planes of the ocean that are not uploaded with the basic detail
NotUploaded == << >>

\* a vertex handed to the render context, with the indices of the samples
\* that were read for it, which are history
OceanVertex(x, sampleBack, sampleMid, sample, reads) ==
    [ x |-> x, sampleBack |-> sampleBack, sampleMid |-> sampleMid, sample |-> sample,
      reads |-> reads ]

\* std::max of two indices
MaxIndex(a, b) == IF a < b THEN b ELSE a

\* int64_t constexpr DetailXOffsetSamples = 2
DetailXOffsetSamples == 2

\* MidPlaneDamp and BackPlaneDamp, in hundredths
MidPlaneDamp == 80
BackPlaneDamp == 45

\* mSamples[index].SampleValue + mSamples[index].SampleValuePlusOneMinusSampleValue
\* * sampleIndexDx, damped; sampleIndexDx is remainder / denominator
InterpolatedSample(mSamples, index, remainder, denominator, damp) ==
    Rational((mSamples[index].SampleValue * denominator
                + mSamples[index].SampleValuePlusOneMinusSampleValue * remainder) * damp,
             denominator * 100)

\* auto const sampleIndexI = FastTruncateToArchInt(sampleIndexF);
SampleIndexI(numerator, denominator) == FastTruncateToArchInt(numerator, denominator)

\* the body of the loop of the zoom out, at slice s: sampleIndexX is
\* firstSampleIndexX + s * coverageWidth / RenderSlices
InterpolatedVertex(mSamples, detailType, firstSampleIndexX, coverageWidth, s) ==
    LET sampleIndexX == Rational(firstSampleIndexX * RenderSlices + s * coverageWidth, RenderSlices)
        \* sampleIndexF = (sampleIndexX + HalfMaxWorldWidth) / Dx
        numerator == sampleIndexX.n + HalfMaxWorldWidth * RenderSlices
        denominator == Dx * RenderSlices
        sampleIndexI == SampleIndexI(numerator, denominator)
        remainder == numerator - sampleIndexI * denominator
        indexBack == MaxIndex(sampleIndexI - DetailXOffsetSamples * 2, 0)
        indexMid == MaxIndex(sampleIndexI - DetailXOffsetSamples, 0)
    IN  IF detailType = "Basic"
        THEN OceanVertex(sampleIndexX, NotUploaded, NotUploaded,
                         InterpolatedSample(mSamples, sampleIndexI, remainder, denominator, 100),
                         { sampleIndexI })
        ELSE OceanVertex(sampleIndexX,
                         InterpolatedSample(mSamples, indexBack, remainder, denominator, BackPlaneDamp),
                         InterpolatedSample(mSamples, indexMid, remainder, denominator, MidPlaneDamp),
                         InterpolatedSample(mSamples, sampleIndexI, remainder, denominator, 100),
                         { indexBack, indexMid, sampleIndexI })

\* the body of the loop of the zoom in, at sample s
RawVertex(mSamples, detailType, firstSampleIndexX, leftmostSampleIndex, s) ==
    LET sampleIndexX == Rational(firstSampleIndexX + s * Dx, 1)
        index == leftmostSampleIndex + s
        indexBack == MaxIndex(index - DetailXOffsetSamples * 2, 0)
        indexMid == MaxIndex(index - DetailXOffsetSamples, 0)
    IN  IF detailType = "Basic"
        THEN OceanVertex(sampleIndexX, NotUploaded, NotUploaded,
                         Rational(mSamples[index].SampleValue, 1), { index })
        ELSE OceanVertex(sampleIndexX,
                         Rational(mSamples[indexBack].SampleValue * BackPlaneDamp, 100),
                         Rational(mSamples[indexMid].SampleValue * MidPlaneDamp, 100),
                         Rational(mSamples[index].SampleValue, 1),
                         { indexBack, indexMid, index })

\* a mutation of the zoom out: no extra iteration for the last side
SlicesToUpload_NoExtra(slices) == 0..(slices - 1)

\* for (size_t s = 0; s <= slices; ++s): one extra iteration
SlicesToUpload(slices) == 0..slices

\* OceanSurface::InternalUpload<DetailType>: the slices declared at the start
\* of the upload, and the vertices uploaded, in order
OceanSurface_InternalUpload(mSamples, visibleWorld, detailType) ==
    LET leftmostSampleIndex ==
            FastTruncateToArchInt(visibleWorld.TopLeft.x + HalfMaxWorldWidth, Dx)
        sampleIndexX == (0 - HalfMaxWorldWidth) + Dx * leftmostSampleIndex
        coverageWidth == visibleWorld.BottomRight.x - sampleIndexX
        numberOfSamplesToRender == Ceil(coverageWidth, Dx)
    IN  IF numberOfSamplesToRender >= RenderSlices
        THEN [ start    |-> RenderSlices,
               vertices |-> [k \in {s + 1 : s \in SlicesToUpload(RenderSlices)} |->
                               InterpolatedVertex(mSamples, detailType, sampleIndexX,
                                                  coverageWidth, k - 1)] ]
        ELSE [ start    |-> numberOfSamplesToRender,
               vertices |-> [k \in {s + 1 : s \in SlicesToUpload(numberOfSamplesToRender)} |->
                               RawVertex(mSamples, detailType, sampleIndexX,
                                         leftmostSampleIndex, k - 1)] ]

----------------------------------------------------------------------------
(* Algorithms: the diffusion of the light of the lamps *)

\* Lights are whole numbers of ten-thousandths, distances of thousandths and
\* the distance coefficients of the lamps of tenths.
LightOne == 10000

\* the largest r of lo..hi with r * r <= n
RECURSIVE IntegerSqrtBetween(_, _, _)
IntegerSqrtBetween(n, lo, hi) ==
    IF lo = hi THEN lo
    ELSE LET mid == (lo + hi + 1) \div 2
         IN  IF mid * mid <= n
             THEN IntegerSqrtBetween(n, mid, hi)
             ELSE IntegerSqrtBetween(n, lo, mid - 1)

\* the distance of the square given, in thousandths and rounded down; beyond
\* forty-five units, which is beyond the reach of every lamp, rounded down to
\* the unit
DistanceOfSquare(squareDistance) ==
    IF squareDistance <= 2000
    THEN IntegerSqrtBetween(squareDistance * 1000000, 0, 46340)
    ELSE IntegerSqrtBetween(squareDistance, 0, 46340) * 1000

\* a lamp of the fixtures
Lamp(x, y, planeId, distanceCoeff, spreadMaxDistance) ==
    [ position          |-> <<x, y>>,
      planeId           |-> planeId,
      distanceCoeff     |-> distanceCoeff,
      spreadMaxDistance |-> spreadMaxDistance ]

\* a point of the fixtures
LitPoint(x, y, planeId) == [position |-> <<x, y>>, planeId |-> planeId]

\* NewLight = C * (S - D), as the fixtures work it out, and 0.0 where the
\* lamp is farther than S
NewLight(point, lamp) ==
    LET distance == DistanceOfSquare(squareLength(vecSub(point.position, lamp.position)))
        light == lamp.distanceCoeff * (lamp.spreadMaxDistance * 1000 - distance)
    IN  IF light > 0 THEN light ELSE 0

\* a mutation of the planes: only the lamps of the plane of the point
IsExcludedByPlaneId_OtherPlanes(point, lamp) == lamp.planeId # point.planeId

\* "Excluded by planeID": the lamp of plane 2 for the point of plane 3,
\* whereas the lamp of plane 3 lights the points of planes 1 and 3 and the
\* lamp of plane 2 the points of plane 1
IsExcludedByPlaneId(point, lamp) == lamp.planeId < point.planeId

\* a mutation of the lights of two lamps: their sum
BrightestLight_Sum(light, newLight) == light + newLight

\* the light of two lamps at a point is that of the brightest: 0.7527864 of
\* 0.1171573 and 0.7527864
BrightestLight(light, newLight) == IF light < newLight THEN newLight ELSE light

\* "Truncated": 1.2 is 1.0
TruncatedLight(light) == IF light > LightOne THEN LightOne ELSE light

\* the light of the lamps from position l on at a point
RECURSIVE PointLight(_, _, _, _)
PointLight(point, lamps, l, light) ==
    IF l > Len(lamps) THEN TruncatedLight(light)
    ELSE PointLight(point, lamps, l + 1,
                    IF IsExcludedByPlaneId(point, lamps[l])
                    THEN light
                    ELSE BrightestLight(light, NewLight(point, lamps[l])))

\* Algorithms::DiffuseLight_Vectorized, as its fixtures determine it: the
\* light buffer of the points
DiffuseLight_Vectorized(points, lamps) ==
    [p \in DOMAIN points |-> PointLight(points[p], lamps, 1, 0)]

\* the points of all the fixtures
FixturePoints ==
    << LitPoint(1, 2, 1), LitPoint(2, 4, 1), LitPoint(10, 5, 2), LitPoint(3, 4, 3) >>

\* a fixture: its lamps and the lights it expects
Fixture(name, lamps, expected) == [name |-> name, lamps |-> lamps, expected |-> expected]

DiffuseLight_1Lamp ==
    Fixture("DiffuseLight_1Lamp",
            << Lamp(4, 2, 3, 1, 4) >>,
            << 1000, 1172, 0, 1764 >>)

DiffuseLight_3Lamps ==
    Fixture("DiffuseLight_3Lamps",
            << Lamp(1, 2, 2, 2, 6), Lamp(100, 100, 10, 100, 1), Lamp(4, 2, 3, 1, 4) >>,
            << 10000, 7528, 0, 1764 >>)

DiffuseLight_4Lamps ==
    Fixture("DiffuseLight_4Lamps",
            << Lamp(4, 2, 3, 1, 4), Lamp(1, 2, 2, 2, 6), Lamp(100, 100, 10, 100, 1),
               Lamp(200, 200, 10, 200, 2) >>,
            << 10000, 7528, 0, 1764 >>)

DiffuseLight_5Lamps ==
    Fixture("DiffuseLight_5Lamps",
            << Lamp(4, 2, 3, 1, 4), Lamp(1, 2, 2, 2, 6), Lamp(100, 100, 10, 100, 1),
               Lamp(200, 200, 10, 200, 2), Lamp(4, 2, 3, 3, 5) >>,
            << 10000, 7528, 0, 8292 >>)

DiffuseLight_8Lamps ==
    Fixture("DiffuseLight_8Lamps",
            << Lamp(100, 100, 1, 100, 4), Lamp(200, 200, 1, 200, 6), Lamp(100, 100, 1, 100, 1),
               Lamp(200, 200, 1, 200, 2), Lamp(4, 2, 3, 1, 4), Lamp(1, 2, 2, 2, 6),
               Lamp(100, 100, 10, 100, 1), Lamp(200, 200, 10, 200, 2) >>,
            << 10000, 7528, 0, 1764 >>)

DiffuseLight_10Lamps ==
    Fixture("DiffuseLight_10Lamps",
            << Lamp(100, 100, 1, 100, 4), Lamp(200, 200, 1, 200, 6), Lamp(100, 100, 1, 100, 1),
               Lamp(200, 200, 1, 200, 2), Lamp(4, 2, 3, 1, 4), Lamp(1, 2, 2, 2, 6),
               Lamp(100, 100, 10, 100, 1), Lamp(200, 200, 10, 200, 2),
               Lamp(100, 100, 10, 200, 4), Lamp(1, 1, 10, 3, 6) >>,
            << 10000, 8513, 0, 7183 >>)

Fixtures ==
    { DiffuseLight_1Lamp, DiffuseLight_3Lamps, DiffuseLight_4Lamps, DiffuseLight_5Lamps,
      DiffuseLight_8Lamps, DiffuseLight_10Lamps }

----------------------------------------------------------------------------
(* SysSpecifics: the powers of two *)

\* the least of power, power * factor, power * factor * factor, ... that is
\* not below value
RECURSIVE CeilPowerFrom(_, _, _)
CeilPowerFrom(value, power, factor) ==
    IF power >= value THEN power ELSE CeilPowerFrom(value, power * factor, factor)

\* ceil_power_of_two
ceil_power_of_two(value) == CeilPowerFrom(value, 1, 2)

\* a mutation of the squares: every power of two is taken for one
ceil_square_power_of_two_AnyPower(value) == IF value = 0 THEN 0 ELSE CeilPowerFrom(value, 1, 2)

\* ceil_square_power_of_two
ceil_square_power_of_two(value) == IF value = 0 THEN 0 ELSE CeilPowerFrom(value, 1, 4)

\* SysSpecificsTests.CeilPowerOfTwo: the values and what is expected of them
CeilPowerOfTwoTable ==
    (0 :> 1 @@ 1 :> 1 @@ 2 :> 2 @@ 3 :> 4 @@ 4 :> 4 @@ 5 :> 8 @@ 6 :> 8 @@ 7 :> 8 @@ 8 :> 8 @@
     9 :> 16)

\* SysSpecificsTests.CeilSquarePowerOfTwo: the values and what is expected
\* of them
CeilSquarePowerOfTwoTable ==
    (0 :> 0 @@ 1 :> 1 @@ 2 :> 4 @@ 3 :> 4 @@ 4 :> 4 @@ 5 :> 16 @@ 6 :> 16 @@ 7 :> 16 @@
     8 :> 16 @@ 9 :> 16 @@ 16 :> 16 @@ 17 :> 64 @@ 18 :> 64 @@ 63 :> 64 @@ 64 :> 64 @@
     65 :> 256)

----------------------------------------------------------------------------
(* Algorithms: the directions and the reciprocal lengths of the springs *)

\* Reciprocal lengths and the components of the directions are whole numbers
\* of hundred-thousandths.
ReciprocalOne == 100000

\* a mutation of the vector of a spring: from B to A
SpringVector_Reversed(posA, posB) == vecSub(posA, posB)

\* the vector of a spring, from A to B: (8, 1) of (2, 4) and (10, 5)
SpringVector(posA, posB) == vecSub(posB, posA)

\* 1 / length, the length in thousandths
ReciprocalLength(length) == (ReciprocalOne * 1000) \div length

\* Algorithms::CalculateVectorDirsAndReciprocalLengths, as its fixture
\* determines it: the direction and the reciprocal length of every spring
CalculateVectorDirsAndReciprocalLengths(pointPositions, springs) ==
    [s \in DOMAIN springs |->
       LET dis == SpringVector(pointPositions[springs[s].PointAIndex],
                               pointPositions[springs[s].PointBIndex])
           reciprocalLength == ReciprocalLength(DistanceOfSquare(squareLength(dis)))
       IN  [ dir              |-> << dis[1] * reciprocalLength, dis[2] * reciprocalLength >>,
             reciprocalLength |-> reciprocalLength ]]

SpringEndpoints(a, b) == [PointAIndex |-> a, PointBIndex |-> b]

\* AlgorithmsTests.CalculateVectorDirsAndReciprocalLengths: the positions of
\* the points, the springs, and the outputs expected: 1/sqrt(5), 2/sqrt(5),
\* 1/sqrt(65), 8/sqrt(65), 1/sqrt(8), 2/sqrt(8), 1/sqrt(50), -7/sqrt(50)
SpringFixturePositions == (0 :> <<1, 2>> @@ 1 :> <<2, 4>> @@ 2 :> <<10, 5>> @@ 3 :> <<3, 4>>)

SpringFixtureSprings ==
    << SpringEndpoints(0, 1), SpringEndpoints(1, 2), SpringEndpoints(0, 3), SpringEndpoints(2, 3) >>

SpringFixtureExpected ==
    << [ dir |-> << 44721, 89443 >>,   reciprocalLength |-> 44721 ],
       [ dir |-> << 99228, 12403 >>,   reciprocalLength |-> 12403 ],
       [ dir |-> << 70711, 70711 >>,   reciprocalLength |-> 35355 ],
       [ dir |-> << -98995, -14142 >>, reciprocalLength |-> 14142 ] >>

----------------------------------------------------------------------------
(* GameGeometry: the line path through integral coordinates *)

\* The narrow coordinate is a float of small magnitude and is kept as a whole
\* number of units of 2^-26, which holds every float between 2^-3 and 2^4
\* exactly; the wide coordinate is a float of integral value and is kept as
\* that value.
NarrowOne == 67108864

\* 2^24: up to here every integer is a float
Float32IntegersMax == 16777216

AbsOf(n) == IF n < 0 THEN 0 - n ELSE n

SignOf(n) == IF n < 0 THEN 0 - 1 ELSE 1

\* the multiple of ulp nearest to n / d, the ties to the even multiple, for
\* n >= 0 and d > 0
NearestEven(n, d, ulp) ==
    LET below == (n \div (d * ulp)) * ulp
        twiceRest == 2 * (n - below * d)
    IN  IF twiceRest < ulp * d THEN below
        ELSE IF twiceRest > ulp * d THEN below + ulp
        ELSE IF (below \div ulp) % 2 = 0 THEN below ELSE below + ulp

\* the distance between the floats around n / d, in the units of n / d, the
\* first float of 24 bits of mantissa being at 2^23 units: 1 below 2^24
\* units, 2 below 2^25, 4 below 2^26, ...
RECURSIVE UlpFrom(_, _, _)
UlpFrom(n, d, ulp) ==
    IF n < 2 * ulp * 8388608 * d THEN ulp ELSE UlpFrom(n, d, 2 * ulp)

\* the float nearest to n / d units
RoundedToFloat(n, d) == SignOf(n) * NearestEven(AbsOf(n), d, UlpFrom(AbsOf(n), d, 1))

\* static_cast<float>(n) of an int, and the float sum of two floats of
\* integral value
FloatOfInt(n) == RoundedToFloat(n, 1)

\* static_cast<float>(a) / static_cast<float>(b) of two small ints, in units
FloatQuotient(a, b) == RoundedToFloat(SignOf(b) * a * NarrowOne, AbsOf(b))

\* the float sum of two floats in units
FloatSum(a, b) == RoundedToFloat(a + b, 1)

\* a mutation of std::round: towards zero
StdRound_TowardsZero(units) == SignOf(units) * (AbsOf(units) \div NarrowOne)

\* std::round of a float in units: to the nearest integer, the halves away
\* from zero
StdRound(units) == SignOf(units) * ((AbsOf(units) + NarrowOne \div 2) \div NarrowOne)

\* makePosition
MakePosition(widestIsX, curW, curN) ==
    IF widestIsX THEN << curW, StdRound(curN) >> ELSE << StdRound(curN), curW >>

\* if (newPosition != oldPosition) { visitor(newPosition); oldPosition = newPosition; }
VisitedIfNew(loop, newPosition) ==
    IF newPosition # loop.oldPosition
    THEN [loop EXCEPT !.visited = Append(@, newPosition), !.oldPosition = newPosition]
    ELSE loop

\* GenerateIntegralLinePath up to the loop: the start point is visited, and
\* the path is done if it is the end point
LinePathBegun(type, startPoint, endPoint) ==
    LET dx == endPoint[1] - startPoint[1]
        dy == endPoint[2] - startPoint[2]
        widestIsX == AbsOf(dx) > AbsOf(dy)
    IN  [ type       |-> type,
          startPoint |-> startPoint,
          endPoint   |-> endPoint,
          visited    |-> << startPoint >>,
          isDone     |-> startPoint = endPoint,
          iterations |-> 0,
          widestIsX  |-> widestIsX,
          slope      |-> IF startPoint = endPoint THEN 0
                         ELSE IF widestIsX THEN FloatQuotient(dy, dx) ELSE FloatQuotient(dx, dy),
          endW       |-> FloatOfInt(IF widestIsX THEN endPoint[1] ELSE endPoint[2]),
          stepW      |-> IF startPoint = endPoint THEN 0
                         ELSE IF widestIsX THEN SignOf(dx) ELSE SignOf(dy),
          curW       |-> FloatOfInt(IF widestIsX THEN startPoint[1] ELSE startPoint[2]),
          curN       |-> FloatOfInt(IF widestIsX THEN startPoint[2] ELSE startPoint[1]) * NarrowOne,
          oldPosition |-> startPoint ]

\* curW += stepW, and the visit of WithAdjacentSteps
WideStepped(loop) ==
    LET stepped == [loop EXCEPT !.curW = FloatOfInt(@ + loop.stepW)]
    IN  IF loop.type = "WithAdjacentSteps"
        THEN VisitedIfNew(stepped, MakePosition(stepped.widestIsX, stepped.curW, stepped.curN))
        ELSE stepped

\* curN += slope * stepW, and the visit
NarrowStepped(loop) ==
    LET stepped == [loop EXCEPT !.curN = FloatSum(@, loop.slope * loop.stepW)]
    IN  VisitedIfNew(stepped, MakePosition(stepped.widestIsX, stepped.curW, stepped.curN))

\* a mutation of the end of the loop: one step early
IsDestinationReached_Early(loop) == 2 * AbsOf(loop.endW - loop.curW) <= 3

\* if (fabs(endW - curW) <= 0.5f)
IsDestinationReached(loop) == 2 * AbsOf(loop.endW - loop.curW) <= 1

\* one iteration of the loop of GenerateIntegralLinePath
LinePathIterated(loop) ==
    LET stepped == NarrowStepped(WideStepped(loop))
    IN  [stepped EXCEPT !.isDone = IsDestinationReached(stepped),
                        !.iterations = @ + 1]

----------------------------------------------------------------------------
(* World: the simulation step *)

\* one entry of the log of a simulation step: the subsystem updated, the
\* time it was handed, and the storm parameters and the wind it read
Updated(subsystem, shipId, currentSimulationTime, stormParameters, wind) ==
    [ subsystem             |-> subsystem,
      shipId                |-> shipId,
      currentSimulationTime |-> currentSimulationTime,
      stormParameters       |-> stormParameters,
      wind                  |-> wind ]

Logged(u, subsystem, shipId, stormParameters, wind) ==
    [u EXCEPT !.log = Append(@, Updated(subsystem, shipId, u.world.mCurrentSimulationTime,
                                        stormParameters, wind))]

\* nothing read
NotRead == << >>

\* Storm::Update: the parameters of the storm are those of the time handed
Storm_Update(storm, currentSimulationTime) ==
    [storm EXCEPT !.parameters = [calculatedAt |-> currentSimulationTime]]

\* Wind::Update: the wind is calculated out of the parameters of the storm.
\* The speed of the wind is null: no basal waves and no ripples.
Wind_Update(wind, stormParameters) ==
    [wind EXCEPT !.baseAndStormSpeedMagnitude = F(0),
                 !.stormParameters = stormParameters]

\* mStars.Update(mCurrentSimulationTime)
World_UpdateStars(u) == Logged(u, "Stars", NoneElementIndex, NotRead, NotRead)

\* mStorm.Update(mCurrentSimulationTime, gameParameters)
World_UpdateStorm(u) ==
    Logged([u EXCEPT !.world.mStorm = Storm_Update(@, u.world.mCurrentSimulationTime)],
           "Storm", NoneElementIndex, NotRead, NotRead)

\* mWind.Update(mStorm.GetParameters(), gameParameters)
World_UpdateWind(u) ==
    Logged([u EXCEPT !.world.mWind = Wind_Update(@, u.world.mStorm.parameters)],
           "Wind", NoneElementIndex, u.world.mStorm.parameters, NotRead)

\* a mutation of the order: the wind is updated before the storm
World_UpdateStormAndWind_WindFirst(u) == World_UpdateStorm(World_UpdateWind(u))

\* the storm, then the wind
World_UpdateStormAndWind(u) == World_UpdateWind(World_UpdateStorm(u))

\* mClouds.Update(mCurrentSimulationTime, mWind.GetBaseAndStormSpeedMagnitude(),
\*                mStorm.GetParameters(), gameParameters)
World_UpdateClouds(u) ==
    Logged(u, "Clouds", NoneElementIndex, u.world.mStorm.parameters, u.world.mWind)

\* mOceanSurface.Update(mCurrentSimulationTime, mWind, gameParameters)
World_UpdateOceanSurface(u, gameParameters, now, random) ==
    Logged([u EXCEPT !.world.mOceanSurface =
                OceanSurface_Update(@, u.world.mCurrentSimulationTime, u.world.mWind,
                                    gameParameters, now, random)],
           "OceanSurface", NoneElementIndex, u.world.mWind.stormParameters, u.world.mWind)

\* mOceanFloor.Update(gameParameters)
World_UpdateOceanFloor(u) == Logged(u, "OceanFloor", NoneElementIndex, NotRead, NotRead)

\* mFishes.Update(mCurrentSimulationTime, mOceanSurface, mOceanFloor, ...)
World_UpdateFishes(u) == Logged(u, "Fishes", NoneElementIndex, NotRead, NotRead)

\* Ship::Update, as far as the gadgets go
Ship_Update(ship, currentSimulationTime, stormParameters) == Gadgets_Update(ship)

\* for (auto & ship : mAllShips) ship->Update(...), from position i on
\* the ship at position i has been updated
World_ShipUpdated(u, i, r) ==
    Logged([u EXCEPT !.ships[i] = r.ship, !.events = @ \o r.events],
           "Ship", u.ships[i].shipId, u.world.mStorm.parameters, u.world.mWind)

\* for (auto & ship : mAllShips) ship->Update(...), from position i on
RECURSIVE World_UpdateShips(_, _)
World_UpdateShips(u, i) ==
    IF i > Len(u.ships) THEN u
    ELSE World_UpdateShips(
             World_ShipUpdated(u, i, Ship_Update(u.ships[i], u.world.mCurrentSimulationTime,
                                                 u.world.mStorm.parameters)),
             i + 1)

\* a mutation of the advance of the time: it is advanced by two steps
AdvanceSimulationTime_Twice(currentSimulationTime) ==
    FAdd(FAdd(currentSimulationTime, SimulationStepTimeDuration), SimulationStepTimeDuration)

\* mCurrentSimulationTime += GameParameters::SimulationStepTimeDuration<float>
AdvanceSimulationTime(currentSimulationTime) ==
    FAdd(currentSimulationTime, SimulationStepTimeDuration)

\* the updates of the subsystems that World::World and World::Update share
World_UpdateSubsystems(u, gameParameters, now, random) ==
    World_UpdateFishes(
        World_UpdateOceanFloor(
            World_UpdateOceanSurface(
                World_UpdateClouds(World_UpdateStormAndWind(World_UpdateStars(u))),
                gameParameters, now, random)))

\* the simulation step begins: the time is advanced
World_BeginUpdate(w, ships) ==
    [ world  |-> [w EXCEPT !.mCurrentSimulationTime = AdvanceSimulationTime(@)],
      ships  |-> ships,
      log    |-> << >>,
      events |-> << >> ]

\* World::Update
World_Update(w, ships, gameParameters, now, random) ==
    World_UpdateShips(
        World_UpdateSubsystems(World_BeginUpdate(w, ships), gameParameters, now, random), 1)

\* the values World::World draws from the random engine: none is used, as
\* the rates of the abnormal waves start at zero
NoRandom ==
    [ tsunamiExponentialReal   |-> 0,
      rogueWaveExponentialReal |-> 0,
      tsunamiSampleIndex       |-> 0,
      tsunamiHeight            |-> F(0),
      rogueWaveHeight          |-> F(0),
      rogueWaveDelay           |-> F(0) ]

\* World::World: the members, and a first update of the subsystems
NewWorld(gameParameters, now) ==
    LET w == [ mCurrentSimulationTime |-> F(0),
               mStorm        |-> [parameters |-> [calculatedAt |-> NotRead]],
               mWind         |-> [baseAndStormSpeedMagnitude |-> F(0), stormParameters |-> NotRead],
               mOceanSurface |-> NewOceanSurface(now) ]
    IN  World_UpdateSubsystems([world |-> w, ships |-> << >>, log |-> << >>, events |-> << >>],
                               gameParameters, now, NoRandom).world

\* World::AdjustOceanSurfaceTo
World_AdjustOceanSurfaceTo(w, worldCoordinates) ==
    [w EXCEPT !.mOceanSurface = OceanSurface_AdjustTo(@, worldCoordinates, w.mCurrentSimulationTime)]

\* World::TriggerTsunami
World_TriggerTsunami(w, random) ==
    [w EXCEPT !.mOceanSurface =
        [TriggerTsunami(@, w.mCurrentSimulationTime, random) EXCEPT
            !.events = Append(@, OceanEvent("DisturbOcean"))]]

\* World::TriggerRogueWave
World_TriggerRogueWave(w, random) ==
    [w EXCEPT !.mOceanSurface = TriggerRogueWave(@, w.mCurrentSimulationTime, w.mWind, random)]

----------------------------------------------------------------------------
(* The state machine *)

\* position of the ship with the given ShipId in mAllShips
ShipIds == {i - 1 : i \in DOMAIN mAllShips}

Call(op, shipId, targetPos, result, events, invoked) ==
    [ op        |-> op,
      shipId    |-> shipId,
      targetPos |-> targetPos,
      result    |-> result,
      events    |-> events,
      invoked   |-> invoked ]

\* the number of gadgets created so far, over the ships from position i on
RECURSIVE GadgetsCreated(_, _)
GadgetsCreated(ships, i) ==
    IF i > Len(ships) THEN 0
    ELSE ships[i].nextLocalGadgetId + GadgetsCreated(ships, i + 1)

\* the gadgets created stay within the bound of the model
WithinBounds(ships) == GadgetsCreated(ships, 1) <= MaxGadgetsCreated

\* the game parameters the ocean surface reads; the rates are in minutes
GameParameters(tsunamiRate, rogueWaveRate) ==
    [ BasalWaveHeightAdjustment |-> FInt(1),
      BasalWaveLengthAdjustment |-> FInt(1),
      BasalWaveSpeedAdjustment  |-> FInt(1),
      TsunamiRate               |-> tsunamiRate,
      RogueWaveRate             |-> rogueWaveRate ]

\* the inputs of a run: the simulation steps and the interactions of the
\* user that are left to run, the seconds of the wall clock that may pass
\* from a step to the next, and the values that may be drawn from the random
\* engine (the seconds of the exponential distribution, the delay of a rogue
\* wave)
Inputs(steps, interactions, wallClockSteps, exponentialReals, rogueWaveDelays) ==
    [ stepsLeft        |-> steps,
      interactionsLeft |-> interactions,
      wallClockSteps   |-> wallClockSteps,
      exponentialReals |-> exponentialReals,
      rogueWaveDelays  |-> rogueWaveDelays ]

\* no step and no interaction
NoInputs == Inputs(0, 0, {60}, {0}, {FInt(2)})

\* the world is constructed at time 0 of the wall clock, with these rates
\* of the abnormal waves
InitWorldWith(tsunamiRate, rogueWaveRate, inputs) ==
    /\ mAllShips = << >>
    /\ lastCall = Call("World", NoneElementIndex, << >>, "void", << >>, << >>)
    /\ world = NewWorld(GameParameters(tsunamiRate, rogueWaveRate), 0)
    /\ environment = [ now            |-> 0,
                       gameParameters |-> GameParameters(tsunamiRate, rogueWaveRate),
                       inputs         |-> inputs ]

\* World::World: no ships, and no abnormal waves
InitWorld == InitWorldWith(0, 0, NoInputs)

\* World::AddShip
AddShip ==
    /\ shipsToAdd # << >>
    /\ LET shipId == Len(mAllShips)
       IN  /\ mAllShips' = Append(mAllShips, NewShip(shipId, Head(shipsToAdd)))
           /\ shipsToAdd' = Tail(shipsToAdd)
           /\ lastCall' = Call("AddShip", shipId, << >>, "void", << >>, << >>)
           /\ UNCHANGED <<world, environment>>

\* the heat simulation sets the temperature of a particle
SetTemperature ==
    \E shipId \in ShipIds :
      \E pointIndex \in PointIndices(mAllShips[shipId + 1]) :
        \E t \in Temperatures :
          /\ GetTemperature(mAllShips[shipId + 1], pointIndex) # t
          /\ mAllShips' = [mAllShips EXCEPT ![shipId + 1].points[pointIndex].temperature = t]
          /\ lastCall' = Call("SetTemperature", shipId, << >>, "void", << >>, << >>)
          /\ UNCHANGED <<shipsToAdd, world, environment>>

\* a spring of a ship breaks
DestroySpring ==
    \E shipId \in ShipIds :
      LET ship == mAllShips[shipId + 1]
      IN  \E springIndex \in DOMAIN ship.springEndpoints :
            /\ springIndex \in GetConnectedSprings(ship, ship.springEndpoints[springIndex][1])
            /\ mAllShips' = [mAllShips EXCEPT ![shipId + 1] = Ship_DestroySpring(ship, springIndex)]
            /\ lastCall' = Call("DestroySpring", shipId, << >>, "void", << >>, << >>)
            /\ UNCHANGED <<shipsToAdd, world, environment>>

\* a particle of a ship is detached
DetachPoint ==
    \E shipId \in ShipIds :
      LET ship == mAllShips[shipId + 1]
      IN  \E pointIndex \in PointIndices(ship) :
            /\ GetConnectedSprings(ship, pointIndex) # {}
            /\ mAllShips' = [mAllShips EXCEPT ![shipId + 1] = Ship_DetachPoint(ship, pointIndex)]
            /\ lastCall' = Call("DetachPoint", shipId, << >>, "void", << >>, << >>)
            /\ UNCHANGED <<shipsToAdd, world, environment>>

\* Gadgets::Update of one ship
GadgetsUpdate ==
    \E shipId \in ShipIds :
      LET r == Gadgets_Update(mAllShips[shipId + 1])
      IN  /\ mAllShips' = [mAllShips EXCEPT ![shipId + 1] = r.ship]
          /\ lastCall' = Call("Gadgets::Update", shipId, << >>, "void", r.events, << >>)
          /\ UNCHANGED <<shipsToAdd, world, environment>>

\* Gadgets::TogglePhysicsProbeAt of one ship
TogglePhysicsProbeAt ==
    \E shipId \in ShipIds :
      \E targetPos \in TargetPositions :
        LET r == Gadgets_TogglePhysicsProbeAt(mAllShips[shipId + 1], targetPos, ToolSearchRadius)
            after == [mAllShips EXCEPT ![shipId + 1] = r.ship]
        IN  /\ WithinBounds(after)
            /\ mAllShips' = after
            /\ lastCall' = Call("TogglePhysicsProbeAt", shipId, targetPos, r.result, r.events, << >>)
            /\ UNCHANGED <<shipsToAdd, world, environment>>

\* Gadgets::RemovePhysicsProbe of one ship
RemovePhysicsProbe ==
    \E shipId \in ShipIds :
      LET r == Gadgets_RemovePhysicsProbe(mAllShips[shipId + 1])
      IN  /\ mAllShips' = [mAllShips EXCEPT ![shipId + 1] = r.ship]
          /\ lastCall' = Call("RemovePhysicsProbe", shipId, << >>, r.result, r.events, << >>)
          /\ UNCHANGED <<shipsToAdd, world, environment>>

WorldToggle(op, r, targetPos) ==
    /\ WithinBounds(r.ships)
    /\ mAllShips' = r.ships
    /\ lastCall' = Call(op, NoneElementIndex, targetPos, "void", r.events, r.invoked)
    /\ UNCHANGED <<shipsToAdd, world, environment>>

ToggleImpactBombAt ==
    \E targetPos \in TargetPositions :
      WorldToggle("ToggleImpactBombAt",
                  World_ToggleImpactBombAt(mAllShips, targetPos, ToolSearchRadius), targetPos)

ToggleTimerBombAt ==
    \E targetPos \in TargetPositions :
      WorldToggle("ToggleTimerBombAt",
                  World_ToggleTimerBombAt(mAllShips, targetPos, ToolSearchRadius), targetPos)

ToggleRCBombAt ==
    \E targetPos \in TargetPositions :
      WorldToggle("ToggleRCBombAt",
                  World_ToggleRCBombAt(mAllShips, targetPos, ToolSearchRadius), targetPos)

ToggleAntiMatterBombAt ==
    \E targetPos \in TargetPositions :
      WorldToggle("ToggleAntiMatterBombAt",
                  World_ToggleAntiMatterBombAt(mAllShips, targetPos, ToolSearchRadius), targetPos)

TogglePinAt ==
    \E targetPos \in TargetPositions :
      WorldToggle("TogglePinAt",
                  World_TogglePinAt(mAllShips, targetPos, ToolSearchRadius), targetPos)

\* The life of the gadgets of the ships
Next ==
    \/ AddShip
    \/ SetTemperature
    \/ DestroySpring
    \/ DetachPoint
    \/ GadgetsUpdate
    \/ TogglePhysicsProbeAt
    \/ RemovePhysicsProbe
    \/ ToggleImpactBombAt

\* one ship is added
Init == InitWorld /\ shipsToAdd = << LongShipDefinition >>

Spec == Init /\ [][Next]_vars

\* The toggles of World
NextToggles ==
    \/ AddShip
    \/ ToggleImpactBombAt
    \/ ToggleTimerBombAt
    \/ ToggleRCBombAt
    \/ ToggleAntiMatterBombAt
    \/ TogglePinAt

\* two overlapping ships are added
InitToggles == InitWorld /\ shipsToAdd = << RightShipDefinition, LeftShipDefinition >>

SpecToggles == InitToggles /\ [][NextToggles]_vars

----------------------------------------------------------------------------
(* The state machine of the simulation step and of the ocean surface *)

\* the values a call draws from the random engine: the seconds drawn from
\* the exponential distribution, the sample and the height of a tsunami,
\* the height and the delay of a rogue wave
Random(exponentialReal, rogueWaveDelay) ==
    [ tsunamiExponentialReal   |-> exponentialReal,
      rogueWaveExponentialReal |-> exponentialReal,
      tsunamiSampleIndex       |-> 1,
      tsunamiHeight            |-> FInt(5),
      rogueWaveHeight          |-> FInt(1),
      rogueWaveDelay           |-> rogueWaveDelay ]

\* one more interaction of the user fits in the run
InteractionWithinBounds == environment.inputs.interactionsLeft > 0

Interacted == [environment EXCEPT !.inputs.interactionsLeft = @ - 1]

\* the simulation step has been run
WorldUpdated(u, now) ==
    /\ world' = u.world
    /\ mAllShips' = u.ships
    /\ environment' = [environment EXCEPT !.now = now, !.inputs.stepsLeft = @ - 1]
    /\ lastCall' = Call("World::Update", NoneElementIndex, << >>, "void", u.events, u.log)
    /\ UNCHANGED shipsToAdd

\* World::Update, after some time of the wall clock
WorldUpdate ==
    /\ environment.inputs.stepsLeft > 0
    /\ \E elapsed \in environment.inputs.wallClockSteps :
         \E exponentialReal \in environment.inputs.exponentialReals :
           \E rogueWaveDelay \in environment.inputs.rogueWaveDelays :
             WorldUpdated(World_Update(world, mAllShips, environment.gameParameters,
                                       environment.now + elapsed,
                                       Random(exponentialReal, rogueWaveDelay)),
                          environment.now + elapsed)

\* the user changes the rates of the abnormal waves
SetAbnormalWaveRates ==
    /\ InteractionWithinBounds
    /\ \E tsunamiRate \in AbnormalWaveRates :
         \E rogueWaveRate \in AbnormalWaveRates :
           /\ environment' = [Interacted EXCEPT
                                !.gameParameters = GameParameters(tsunamiRate, rogueWaveRate)]
           /\ environment'.gameParameters # environment.gameParameters
           /\ lastCall' = Call("SetAbnormalWaveRates", NoneElementIndex, << >>, "void", << >>, << >>)
           /\ UNCHANGED <<mAllShips, shipsToAdd, world>>

\* the interaction is logged with the simulation time it is handed
Interaction(op, worldCoordinates) ==
    Call(op, NoneElementIndex, worldCoordinates, "void", << >>,
         << Updated(op, NoneElementIndex, world.mCurrentSimulationTime, NotRead, NotRead) >>)

\* World::AdjustOceanSurfaceTo with coordinates: the user drags the surface
AdjustOceanSurfaceTo ==
    /\ InteractionWithinBounds
    /\ \E worldCoordinates \in InteractiveWaveCoordinates :
         /\ world' = World_AdjustOceanSurfaceTo(world, << worldCoordinates >>)
         /\ lastCall' = Interaction("World::AdjustOceanSurfaceTo", << worldCoordinates >>)
         /\ environment' = Interacted
         /\ UNCHANGED <<mAllShips, shipsToAdd>>

\* World::AdjustOceanSurfaceTo without coordinates: the user lets the
\* surface go, which the tool does when it has been dragging it
ReleaseOceanSurface ==
    /\ world.mOceanSurface.mSWEInteractiveWaveStateMachine # << >>
    /\ world.mOceanSurface.mSWEInteractiveWaveStateMachine[1].mCurrentWavePhase = "Rise"
    /\ world' = World_AdjustOceanSurfaceTo(world, << >>)
    /\ lastCall' = Interaction("World::AdjustOceanSurfaceTo", << >>)
    /\ UNCHANGED <<mAllShips, shipsToAdd, environment>>

\* World::TriggerTsunami
TriggerTsunamiByUser ==
    /\ InteractionWithinBounds
    /\ world' = World_TriggerTsunami(world, Random(0, FInt(2)))
    /\ lastCall' = Interaction("World::TriggerTsunami", << >>)
    /\ environment' = Interacted
    /\ UNCHANGED <<mAllShips, shipsToAdd>>

\* World::TriggerRogueWave
TriggerRogueWaveByUser ==
    /\ InteractionWithinBounds
    /\ \E rogueWaveDelay \in environment.inputs.rogueWaveDelays :
         /\ world' = World_TriggerRogueWave(world, Random(0, rogueWaveDelay))
         /\ lastCall' = Interaction("World::TriggerRogueWave", << >>)
         /\ environment' = Interacted
         /\ UNCHANGED <<mAllShips, shipsToAdd>>

\* OceanSurface::DisplaceAt: a disturbance displaces the surface at a sample
OceanSurface_DisplaceAt(o, sampleIndex, yOffset) ==
    [o EXCEPT !.mDeltaHeightBuffer[sampleIndex] =
        FAdd(@, FDiv(yOffset, SWEHeightFieldAmplification))]

\* World::DisplaceOceanSurfaceAt: something disturbs the surface
DisplaceOceanSurfaceAt ==
    /\ InteractionWithinBounds
    /\ \E sampleIndex \in 0..(SamplesCount - 1) :
         \E yOffset \in Displacements :
           /\ world' = [world EXCEPT !.mOceanSurface = OceanSurface_DisplaceAt(@, sampleIndex, yOffset)]
           /\ lastCall' = Call("World::DisplaceOceanSurfaceAt", NoneElementIndex,
                               << sampleIndex >>, "void", << >>, << >>)
           /\ environment' = Interacted
           /\ UNCHANGED <<mAllShips, shipsToAdd>>

\* The simulation steps of a world of two ships and their bombs
NextWorld ==
    \/ AddShip
    \/ ToggleImpactBombAt
    \/ WorldUpdate
    \/ AdjustOceanSurfaceTo

InitWorldSteps ==
    /\ InitWorldWith(0, 0, Inputs(MaxWorldSteps, MaxInteractions, {60}, {0}, {FInt(2)}))
    /\ shipsToAdd = << RightShipDefinition, LeftShipDefinition >>

SpecWorld == InitWorldSteps /\ [][NextWorld]_vars

\* The abnormal waves of a world without ships
NextAbnormalWaves ==
    \/ WorldUpdate
    \/ SetAbnormalWaveRates
    \/ TriggerTsunamiByUser
    \/ TriggerRogueWaveByUser

\* the rates of the abnormal waves are positive
InitAbnormalWaves ==
    /\ InitWorldWith(1, 1, Inputs(MaxAbnormalWaveSteps, MaxRateChanges, {130}, {10, 140},
                                  {F(150000), FInt(2)}))
    /\ shipsToAdd = << >>

SpecAbnormalWaves == InitAbnormalWaves /\ [][NextAbnormalWaves]_vars

\* The disturbances of the ocean surface of a world without ships
NextOceanSurface ==
    \/ WorldUpdate
    \/ DisplaceOceanSurfaceAt
    \/ TriggerRogueWaveByUser

InitOceanSurface ==
    /\ InitWorldWith(0, 0, Inputs(MaxOceanSurfaceSteps, MaxInteractions, {60}, {0}, {FInt(2)}))
    /\ shipsToAdd = << >>

SpecOceanSurface == InitOceanSurface /\ [][NextOceanSurface]_vars

\* The interactive wave of a world without ships
NextInteractiveWave ==
    \/ WorldUpdate
    \/ AdjustOceanSurfaceTo
    \/ ReleaseOceanSurface

InitInteractiveWave ==
    /\ InitWorldWith(0, 0, Inputs(MaxInteractiveWaveSteps, MaxInteractions, {60}, {0}, {FInt(2)}))
    /\ shipsToAdd = << >>

SpecInteractiveWave == InitInteractiveWave /\ [][NextInteractiveWave]_vars

----------------------------------------------------------------------------
(* The state machine of the boundary damping *)

\* the fields before the call are kept with the call
ApplyDampingBoundaryConditionsCalled ==
    /\ environment.inputs.stepsLeft > 0
    /\ world' = [world EXCEPT !.mOceanSurface = ApplyDampingBoundaryConditions(@)]
    /\ lastCall' = Call("OceanSurface::ApplyDampingBoundaryConditions", NoneElementIndex, << >>, "void",
                        << >>, << [ h |-> world.mOceanSurface.mHeightField,
                                    v |-> world.mOceanSurface.mVelocityField ] >>)
    /\ environment' = [environment EXCEPT !.inputs.stepsLeft = @ - 1]
    /\ UNCHANGED <<mAllShips, shipsToAdd>>

NextDamping == ApplyDampingBoundaryConditionsCalled

\* an ocean surface whose cells have any of the heights and of the velocities
InitDamping ==
    /\ mAllShips = << >>
    /\ shipsToAdd = << >>
    /\ lastCall = Call("World", NoneElementIndex, << >>, "void", << >>, << >>)
    /\ environment = [ now            |-> 0,
                       gameParameters |-> GameParameters(0, 0),
                       inputs         |-> Inputs(MaxDampings, 0, {60}, {0}, {FInt(2)}) ]
    /\ \E h0, h1, h2 \in CellHeights :
         \E v0, v1 \in CellVelocities :
           world = [NewWorld(GameParameters(0, 0), 0) EXCEPT
                      !.mOceanSurface.mHeightField =
                          [i \in FieldIndices |-> IF i % 3 = 0 THEN h0 ELSE IF i % 3 = 1 THEN h1 ELSE h2],
                      !.mOceanSurface.mVelocityField =
                          [i \in FieldIndices |-> IF i % 2 = 0 THEN v0 ELSE v1]]

SpecDamping == InitDamping /\ [][NextDamping]_vars

----------------------------------------------------------------------------
(* The state machine of the electric sparks *)

\* the values a call of ApplySparkAt draws from the random engine: the
\* number of starting arcs, and the outcome of the draws for a fork and for
\* a reroute, taken to be the same at every particle visited by the call
SparkRandom(startingArcsCount, fork, reroute) ==
    [startingArcsCount |-> startingArcsCount, fork |-> fork, reroute |-> reroute]

\* ShipElectricSparks::ApplySparkAt of one ship.  lastCall.invoked holds
\* the state of the sparks before the call and the particle the propagation
\* started from
ApplySparkAt ==
    /\ environment.inputs.stepsLeft > 0
    /\ \E shipId \in ShipIds :
         \E targetPos \in SparkTargetPositions :
           \E counter \in SparkCounters :
             \E startingArcsCount \in StartingArcsMin..StartingArcsMax :
               \E fork, reroute \in BOOLEAN :
                 LET r == ShipElectricSparks_ApplySparkAt(
                              mAllShips[shipId + 1].mElectricSparks, mAllShips[shipId + 1],
                              targetPos, counter,
                              SparkRandom(startingArcsCount, fork, reroute))
                 IN  /\ mAllShips' = [mAllShips EXCEPT ![shipId + 1].mElectricSparks = r.sparks]
                     /\ lastCall' = Call("ShipElectricSparks::ApplySparkAt", shipId, targetPos,
                                         r.result, << >>,
                                         << [ sparks |-> mAllShips[shipId + 1].mElectricSparks,
                                              startingPointIndex |-> r.startingPointIndex,
                                              counter |-> counter ] >>)
    /\ environment' = [environment EXCEPT !.inputs.stepsLeft = @ - 1]
    /\ UNCHANGED <<shipsToAdd, world>>

\* ShipElectricSparks::Update of one ship
ElectricSparksUpdate ==
    /\ environment.inputs.stepsLeft > 0
    /\ \E shipId \in ShipIds :
         /\ mAllShips' = [mAllShips EXCEPT
                            ![shipId + 1].mElectricSparks = ShipElectricSparks_Update(@)]
         /\ lastCall' = Call("ShipElectricSparks::Update", shipId, << >>, "void", << >>, << >>)
    /\ environment' = [environment EXCEPT !.inputs.stepsLeft = @ - 1]
    /\ UNCHANGED <<shipsToAdd, world>>

NextElectricSparks ==
    \/ AddShip
    \/ ApplySparkAt
    \/ ElectricSparksUpdate

\* the ship of eight particles is added
InitElectricSparks ==
    /\ InitWorldWith(0, 0, Inputs(MaxSparkSteps, 0, {60}, {0}, {FInt(2)}))
    /\ shipsToAdd = << RibbedShipDefinition >>

SpecElectricSparks == InitElectricSparks /\ [][NextElectricSparks]_vars

----------------------------------------------------------------------------
(* The state machine of the interactions applied to all the ships *)

\* the interaction is logged with its positions, its result and the ships
\* asked
WorldApply(op, r, positions) ==
    /\ InteractionWithinBounds
    /\ mAllShips' = r.ships
    /\ lastCall' = Call(op, NoneElementIndex, positions, r.result, << >>, r.invoked)
    /\ environment' = Interacted
    /\ UNCHANGED <<shipsToAdd, world>>

ApplyHeatBlasterAt ==
    \E targetPos \in ApplyTargetPositions :
      WorldApply("ApplyHeatBlasterAt",
                 World_ApplyHeatBlasterAt(mAllShips, targetPos, ToolSearchRadius),
                 << targetPos >>)

ExtinguishFireAt ==
    \E targetPos \in ApplyTargetPositions :
      WorldApply("ExtinguishFireAt",
                 World_ExtinguishFireAt(mAllShips, targetPos, ToolSearchRadius),
                 << targetPos >>)

FloodAt ==
    \E targetPos \in ApplyTargetPositions :
      WorldApply("FloodAt",
                 World_FloodAt(mAllShips, targetPos, ToolSearchRadius),
                 << targetPos >>)

ScrubThrough ==
    \E startPos, endPos \in ApplyTargetPositions :
      WorldApply("ScrubThrough",
                 World_ScrubThrough(mAllShips, startPos, endPos, ToolSearchRadius),
                 << startPos, endPos >>)

NextApplyToAll ==
    \/ AddShip
    \/ ApplyHeatBlasterAt
    \/ ExtinguishFireAt
    \/ FloodAt
    \/ ScrubThrough

\* two ships are added, and the user interacts
InitApplyToAll ==
    /\ InitWorldWith(0, 0, Inputs(0, MaxInteractions, {60}, {0}, {FInt(2)}))
    /\ shipsToAdd = << RightShipDefinition, LeftShipDefinition >>

SpecApplyToAll == InitApplyToAll /\ [][NextApplyToAll]_vars

----------------------------------------------------------------------------
(* The state machine of the parameters of the waves *)

\* the parameters of the game after the user has moved one of the sliders of
\* the waves
WaveParametersAfterOneChange(gameParameters) ==
    ( { [gameParameters EXCEPT !.BasalWaveHeightAdjustment = FInt(a)] : a \in BasalWaveAdjustments }
      \cup { [gameParameters EXCEPT !.BasalWaveLengthAdjustment = FInt(a)] : a \in BasalWaveAdjustments }
      \cup { [gameParameters EXCEPT !.BasalWaveSpeedAdjustment = FInt(a)] : a \in BasalWaveAdjustments }
      \cup { [gameParameters EXCEPT !.TsunamiRate = r] : r \in AbnormalWaveRates }
      \cup { [gameParameters EXCEPT !.RogueWaveRate = r] : r \in AbnormalWaveRates } )
    \ { gameParameters }

\* the user changes an adjustment of the basal waves or a rate of the
\* abnormal waves
SetWaveParameter ==
    /\ InteractionWithinBounds
    /\ \E gameParameters \in WaveParametersAfterOneChange(environment.gameParameters) :
         /\ environment' = [Interacted EXCEPT !.gameParameters = gameParameters]
         /\ lastCall' = Call("SetWaveParameter", NoneElementIndex, << >>, "void", << >>, << >>)
         /\ UNCHANGED <<mAllShips, shipsToAdd, world>>

\* OceanSurface::Update with the wind of the moment, after some time of the
\* wall clock.  lastCall.invoked holds the ocean surface before the call and
\* the wind and the parameters handed.
OceanSurfaceUpdate ==
    /\ environment.inputs.stepsLeft > 0
    /\ \E elapsed \in environment.inputs.wallClockSteps :
         \E exponentialReal \in environment.inputs.exponentialReals :
           \E rogueWaveDelay \in environment.inputs.rogueWaveDelays :
             \E windSpeed \in WindSpeeds :
               LET wind == [world.mWind EXCEPT !.baseAndStormSpeedMagnitude = FInt(windSpeed)]
               IN  /\ world' = [world EXCEPT
                                  !.mWind = wind,
                                  !.mOceanSurface =
                                      OceanSurface_Update(@, world.mCurrentSimulationTime, wind,
                                                          environment.gameParameters,
                                                          environment.now + elapsed,
                                                          Random(exponentialReal, rogueWaveDelay))]
                   /\ lastCall' = Call("OceanSurface::Update", NoneElementIndex, << >>, "void",
                                       << >>,
                                       << [ before         |-> world.mOceanSurface,
                                            wind           |-> wind,
                                            gameParameters |-> environment.gameParameters ] >>)
                   /\ environment' = [environment EXCEPT !.now = @ + elapsed,
                                                         !.inputs.stepsLeft = @ - 1]
    /\ UNCHANGED <<mAllShips, shipsToAdd>>

NextWaveParameters ==
    \/ SetWaveParameter
    \/ OceanSurfaceUpdate

\* a world without ships, with abnormal waves
InitWaveParameters ==
    /\ InitWorldWith(1, 1, Inputs(MaxParameterSteps, MaxParameterChanges, {140}, {10}, {FInt(2)}))
    /\ shipsToAdd = << >>

SpecWaveParameters == InitWaveParameters /\ [][NextWaveParameters]_vars

----------------------------------------------------------------------------
(* The state machine of the upload of the ocean surface *)

\* the x of the left and of the right edge of the visible world, both within
\* the world
VisibleWorldXs == { -2048, -2046, -1999, -1001, -48, -47, 0, 3, 1000, 1948, 1951, 2047, 2048 }

VisibleWorld(left, right) == [TopLeft |-> [x |-> left], BottomRight |-> [x |-> right]]

\* the values of the samples of the ocean that is uploaded
RenderedSampleValues == [i \in 0..(RenderedSamplesCount - 1) |-> ((i * 7) % 5) + ((i \div 3) % 4)]

\* OceanSurface::Upload, with the detail and the visible world of the render
\* context.  lastCall.result holds what the render context has been handed.
OceanSurfaceUpload ==
    /\ environment.inputs.stepsLeft > 0
    /\ \E left, right \in VisibleWorldXs :
      \E detailType \in {"Basic", "Detailed"} :
        /\ left < right
        /\ lastCall' = Call("OceanSurface::Upload", NoneElementIndex, << >>,
                            OceanSurface_InternalUpload(world.mOceanSurface.mSamples,
                                                        VisibleWorld(left, right), detailType),
                            << >>,
                            << [ visibleWorld |-> VisibleWorld(left, right),
                                 detailType   |-> detailType ] >>)
    /\ environment' = [environment EXCEPT !.inputs.stepsLeft = @ - 1]
    /\ UNCHANGED <<mAllShips, shipsToAdd, world>>

NextUpload == OceanSurfaceUpload

\* a world without ships, whose ocean has been sampled
InitUpload ==
    /\ mAllShips = << >>
    /\ shipsToAdd = << >>
    /\ lastCall = Call("World", NoneElementIndex, << >>, "void", << >>, << >>)
    /\ world = [NewWorld(GameParameters(0, 0), 0) EXCEPT
                  !.mOceanSurface.mSamples = SamplesOf(RenderedSampleValues, RenderedSamplesCount)]
    /\ environment = [ now            |-> 0,
                       gameParameters |-> GameParameters(0, 0),
                       inputs         |-> Inputs(MaxUploads, 0, {60}, {0}, {FInt(2)}) ]

SpecUpload == InitUpload /\ [][NextUpload]_vars

----------------------------------------------------------------------------
(* The state machine of the diffusion of the light *)

\* the lamps the diffusion is run with besides those of the fixtures: the
\* distinct lamps of the fixtures, and one of them on the plane of the first
\* points
LampsAtHand ==
    { Lamp(4, 2, 3, 1, 4), Lamp(1, 2, 2, 2, 6), Lamp(100, 100, 10, 100, 1),
      Lamp(4, 2, 3, 3, 5), Lamp(100, 100, 1, 100, 4), Lamp(1, 1, 10, 3, 6),
      Lamp(4, 2, 1, 1, 4) }

\* the sequences of lamps at hand, up to the length given
LampSequences(maxLength) ==
    UNION { [1..n -> LampsAtHand] : n \in 0..maxLength }

\* the diffusion has been run.  lastCall.invoked holds the points, the lamps
\* and the lights expected, if any
Diffused(points, lamps, expected) ==
    /\ environment.inputs.stepsLeft > 0
    /\ lastCall' = Call("Algorithms::DiffuseLight_Vectorized", NoneElementIndex, << >>,
                        DiffuseLight_Vectorized(points, lamps), << >>,
                        << [points |-> points, lamps |-> lamps, expected |-> expected] >>)
    /\ environment' = [environment EXCEPT !.inputs.stepsLeft = @ - 1]
    /\ UNCHANGED <<mAllShips, shipsToAdd, world>>

\* a fixture of AlgorithmsTests is run
RunDiffuseLightFixture ==
    \E fixture \in Fixtures : Diffused(FixturePoints, fixture.lamps, << fixture.expected >>)

\* the diffusion is run with some lamps at hand
DiffuseLight ==
    \E lamps \in LampSequences(MaxLamps) : Diffused(FixturePoints, lamps, << >>)

NextDiffuseLight ==
    \/ RunDiffuseLightFixture
    \/ DiffuseLight

InitDiffuseLight ==
    /\ InitWorldWith(0, 0, Inputs(MaxDiffusions, 0, {60}, {0}, {FInt(2)}))
    /\ shipsToAdd = << >>

SpecDiffuseLight == InitDiffuseLight /\ [][NextDiffuseLight]_vars

----------------------------------------------------------------------------
(* The state machine of the powers of two *)

\* a function of SysSpecifics has been applied to a value.
\* lastCall.invoked holds the value, and what a test expects of it, if any
Ceiled(op, value, result, table) ==
    /\ lastCall' = Call(op, NoneElementIndex, << >>, result, << >>,
                        << [ value    |-> value,
                             expected |-> IF value \in DOMAIN table
                                          THEN << table[value] >> ELSE << >> ] >>)
    /\ UNCHANGED <<mAllShips, shipsToAdd, world, environment>>

CeilPowerOfTwo ==
    \E value \in 0..MaxCeiledValue :
      Ceiled("ceil_power_of_two", value, ceil_power_of_two(value), CeilPowerOfTwoTable)

CeilSquarePowerOfTwo ==
    \E value \in 0..MaxCeiledValue :
      Ceiled("ceil_square_power_of_two", value, ceil_square_power_of_two(value),
             CeilSquarePowerOfTwoTable)

NextCeilPowerOfTwo ==
    \/ CeilPowerOfTwo
    \/ CeilSquarePowerOfTwo

InitCeilPowerOfTwo == InitWorld /\ shipsToAdd = << >>

SpecCeilPowerOfTwo == InitCeilPowerOfTwo /\ [][NextCeilPowerOfTwo]_vars

----------------------------------------------------------------------------
(* The state machine of the directions of the springs *)

\* the directions have been calculated.  lastCall.invoked holds the
\* positions, the springs and the outputs expected, if any
DirsCalculated(pointPositions, springs, expected) ==
    /\ lastCall' = Call("Algorithms::CalculateVectorDirsAndReciprocalLengths", NoneElementIndex,
                        << >>,
                        CalculateVectorDirsAndReciprocalLengths(pointPositions, springs),
                        << >>,
                        << [ pointPositions |-> pointPositions, springs |-> springs,
                             expected |-> expected ] >>)
    /\ UNCHANGED <<mAllShips, shipsToAdd, world, environment>>

\* the fixture of AlgorithmsTests is run
RunSpringFixture ==
    DirsCalculated(SpringFixturePositions, SpringFixtureSprings, << SpringFixtureExpected >>)

\* the springs between two distinct points of the fixture
SpringsAtHand ==
    { SpringEndpoints(a, b) : a, b \in DOMAIN SpringFixturePositions } \
    { SpringEndpoints(a, a) : a \in DOMAIN SpringFixturePositions }

\* the directions of some springs of the points of the fixture are calculated
CalculateDirs ==
    \E n \in 0..MaxSprings :
      \E springs \in [1..n -> SpringsAtHand] :
        DirsCalculated(SpringFixturePositions, springs, << >>)

NextSpringDirs ==
    \/ RunSpringFixture
    \/ CalculateDirs

InitSpringDirs == InitWorld /\ shipsToAdd = << >>

SpecSpringDirs == InitSpringDirs /\ [][NextSpringDirs]_vars

----------------------------------------------------------------------------
(* The state machine of the releases of the interactive wave, at any time *)

\* what a release finds: no machine, or the phase of the machine
FoundByRelease(o) ==
    IF o.mSWEInteractiveWaveStateMachine = << >>
    THEN "none"
    ELSE o.mSWEInteractiveWaveStateMachine[1].mCurrentWavePhase

\* The outcomes of OceanSurface::AdjustTo without coordinates.  With the
\* assertions compiled in, the call ends the program unless it finds a rising
\* machine.  Without them, Release is run on the machine found, rising or
\* falling; with no machine the call dereferences an empty optional, which is
\* undefined: the optional stays empty when the members written are those of
\* its unused storage.
ReleaseOutcomes(w) ==
    CASE FoundByRelease(w.mOceanSurface) = "Rise" ->
           { [world |-> World_AdjustOceanSurfaceTo(w, << >>), result |-> "void"] }
      [] FoundByRelease(w.mOceanSurface) = "Fall" ->
           { [world |-> w, result |-> "assertion failed"],
             [world |-> World_AdjustOceanSurfaceTo(w, << >>), result |-> "void"] }
      [] OTHER ->
           { [world |-> w, result |-> "assertion failed"],
             [world |-> w, result |-> "undefined"] }

\* the program has been ended by an assertion
HasAsserted == lastCall.result = "assertion failed"

\* World::AdjustOceanSurfaceTo without coordinates, whenever the caller
\* likes.  lastCall.events holds what the release found.
ReleaseOceanSurfaceAtAnyTime ==
    /\ InteractionWithinBounds
    /\ \E outcome \in ReleaseOutcomes(world) :
         /\ world' = outcome.world
         /\ lastCall' = Call("World::AdjustOceanSurfaceTo", NoneElementIndex, << >>,
                             outcome.result, << FoundByRelease(world.mOceanSurface) >>,
                             << Updated("World::AdjustOceanSurfaceTo", NoneElementIndex,
                                        world.mCurrentSimulationTime, NotRead, NotRead) >>)
    /\ environment' = Interacted
    /\ UNCHANGED <<mAllShips, shipsToAdd>>

NextReleaseAtAnyTime ==
    \/ ~HasAsserted /\ WorldUpdate
    \/ ~HasAsserted /\ AdjustOceanSurfaceTo
    \/ ~HasAsserted /\ ReleaseOceanSurfaceAtAnyTime

InitReleaseAtAnyTime ==
    /\ InitWorldWith(0, 0, Inputs(MaxInteractiveWaveSteps, MaxReleaseInteractions, {60}, {0}, {FInt(2)}))
    /\ shipsToAdd = << >>

SpecReleaseAtAnyTime == InitReleaseAtAnyTime /\ [][NextReleaseAtAnyTime]_vars

----------------------------------------------------------------------------
(* The state machine of the integration of the fields *)

\* the fields and the buffer before the call are kept with the call
UpdateFieldsCalled ==
    /\ environment.inputs.stepsLeft > 0
    /\ world' = [world EXCEPT !.mOceanSurface = UpdateFields(Untraced(@))]
    /\ lastCall' = Call("OceanSurface::UpdateFields", NoneElementIndex, << >>, "void",
                        << >>, << [ h      |-> world.mOceanSurface.mHeightField,
                                    v      |-> world.mOceanSurface.mVelocityField,
                                    buffer |-> world.mOceanSurface.mDeltaHeightBuffer ] >>)
    /\ environment' = [environment EXCEPT !.inputs.stepsLeft = @ - 1]
    /\ UNCHANGED <<mAllShips, shipsToAdd>>

NextUpdateFields ==
    \/ UpdateFieldsCalled
    \/ DisplaceOceanSurfaceAt

\* an ocean surface whose cells have any of the heights and of the
\* velocities; the velocities at the two ends of the grid are null
InitUpdateFields ==
    /\ mAllShips = << >>
    /\ shipsToAdd = << >>
    /\ lastCall = Call("World", NoneElementIndex, << >>, "void", << >>, << >>)
    /\ environment = [ now            |-> 0,
                       gameParameters |-> GameParameters(0, 0),
                       inputs         |-> Inputs(MaxFieldUpdates, 1, {60}, {0}, {FInt(2)}) ]
    /\ \E h0, h1, h2 \in CellHeights :
         \E v0, v1 \in CellVelocities :
           world = [NewWorld(GameParameters(0, 0), 0) EXCEPT
                      !.mOceanSurface.mHeightField =
                          [i \in FieldIndices |-> IF i % 3 = 0 THEN h0 ELSE IF i % 3 = 1 THEN h1 ELSE h2],
                      !.mOceanSurface.mVelocityField =
                          [i \in FieldIndices |->
                             IF i = 0 \/ i = SWETotalSamples THEN F(0)
                             ELSE IF i % 2 = 0 THEN v0 ELSE v1]]

SpecUpdateFields == InitUpdateFields /\ [][NextUpdateFields]_vars

----------------------------------------------------------------------------
(* The state machine of the line path *)

\* the loop of the last call
LinePath == lastCall.invoked[1]

IsLinePath == lastCall.op = "GenerateIntegralLinePath"

\* the endpoints of the lines: the small coordinates, and the coordinates
\* around 2^24
SmallPoints == { << x, y >> : x, y \in (0 - MaxLineCoordinate)..MaxLineCoordinate }

FarPoints ==
    { << Float32IntegersMax + x, y >> : x \in (0 - MaxLineCoordinate)..MaxLineCoordinate, y \in 0..1 }

\* the lines between the small points, and the lines around 2^24, which run
\* along x: their narrow coordinate is small
SmallLines == SmallPoints \X SmallPoints

FarLines ==
    { line \in FarPoints \X FarPoints :
        AbsOf(line[2][1] - line[1][1]) > AbsOf(line[2][2] - line[1][2]) }

\* GenerateIntegralLinePath is called: lastCall.invoked holds the loop
GenerateIntegralLinePath ==
    /\ environment.inputs.stepsLeft > 0
    /\ ~ (IsLinePath /\ ~ LinePath.isDone /\ LinePath.iterations < MaxLineIterations)
    /\ \E type \in {"Minimal", "WithAdjacentSteps"} :
         \E line \in SmallLines \cup FarLines :
           lastCall' = Call("GenerateIntegralLinePath", NoneElementIndex, << >>, "void", << >>,
                            << LinePathBegun(type, line[1], line[2]) >>)
    /\ environment' = [environment EXCEPT !.inputs.stepsLeft = @ - 1]
    /\ UNCHANGED <<mAllShips, shipsToAdd, world>>

\* the loop of the call goes through one more iteration
LinePathIteration ==
    /\ IsLinePath
    /\ ~ LinePath.isDone
    /\ LinePath.iterations < MaxLineIterations
    /\ lastCall' = [lastCall EXCEPT !.invoked = << LinePathIterated(LinePath) >>]
    /\ UNCHANGED <<mAllShips, shipsToAdd, world, environment>>

NextLinePath ==
    \/ GenerateIntegralLinePath
    \/ LinePathIteration

InitLinePath ==
    /\ InitWorldWith(0, 0, Inputs(MaxLinePaths, 0, {60}, {0}, {FInt(2)}))
    /\ shipsToAdd = << >>

SpecLinePath == InitLinePath /\ [][NextLinePath]_vars

----------------------------------------------------------------------------
(* Vocabulary of the properties *)

\* the gadgets of the collection of a ship, as a set
GadgetsOf(ship) == {ship.gadgets[k] : k \in DOMAIN ship.gadgets}

ImpactBombsOf(ship) == {g \in GadgetsOf(ship) : g.type = "ImpactBomb"}

\* the identifiers of the gadgets of a sequence, in its order
IdsOf(gadgets) == [k \in DOMAIN gadgets |-> gadgets[k].id]

\* the subsequence of the events of the given name
EventsNamed(events, name) == SelectSeq(events, LAMBDA e : e.event = name)

\* how many events of the given name the gadget with the given id has
CountEvents(events, name, id) ==
    Len(SelectSeq(events, LAMBDA e : e.event = name /\ e.gadgetId = id))

\* the position in events of the first event of the given name and id; 0 when there is none
FirstEventAt(events, name, id) ==
    IF \E k \in DOMAIN events : events[k].event = name /\ events[k].gadgetId = id
    THEN CHOOSE k \in DOMAIN events :
            /\ events[k].event = name /\ events[k].gadgetId = id
            /\ \A j \in 1..(k - 1) : ~ (events[j].event = name /\ events[j].gadgetId = id)
    ELSE 0

StateRank(state) ==
    CASE state = "Idle"                -> 0
      [] state = "TriggeringExplosion" -> 1
      [] state = "Exploding"           -> 2
      [] state = "Expired"             -> 3

\* the step is a Gadgets::Update of the ship at position i of mAllShips
IsUpdateOf(i) == lastCall'.op = "Gadgets::Update" /\ lastCall'.shipId = i - 1

----------------------------------------------------------------------------
(* C1 *)

\* C1: an Idle impact bomb goes to TriggeringExplosion in an Update call
\* exactly when the temperature of its particle is above the trigger at that
\* call; otherwise the call leaves it Idle, and a step of any other operation
\* leaves it Idle as long as it stays in the collection.
C1_IdleLeftOnlyAboveTrigger ==
    [][ \A i \in DOMAIN mAllShips :
          \A g \in ImpactBombsOf(mAllShips[i]) :
            g.state = "Idle" =>
              IF IsUpdateOf(i)
              THEN \E h \in GadgetsOf(mAllShips'[i]) :
                     /\ h.id = g.id
                     /\ h.state = IF GetTemperature(mAllShips[i], g.pointIndex) > BombsTemperatureTrigger
                                  THEN "TriggeringExplosion"
                                  ELSE "Idle"
              ELSE \A h \in GadgetsOf(mAllShips'[i]) : h.id = g.id => h.state = "Idle"
      ]_vars

\* an Update has just triggered an impact bomb whose particle is above the trigger
C1_Witness ==
    /\ lastCall.op = "Gadgets::Update"
    /\ \E i \in DOMAIN mAllShips :
         \E g \in ImpactBombsOf(mAllShips[i]) :
           /\ g.state = "TriggeringExplosion"
           /\ GetTemperature(mAllShips[i], g.pointIndex) > BombsTemperatureTrigger

----------------------------------------------------------------------------
(* C2 *)

\* C2: an impact bomb is still Exploding after each of the first
\* ExplosionFadeoutStepsCount - 1 Update calls made while Exploding, and is
\* Expired after the ExplosionFadeoutStepsCount-th: never earlier, never later.
C2_ExpiresAtFadeoutStepsCount ==
    \A i \in DOMAIN mAllShips :
      \A g \in ImpactBombsOf(mAllShips[i]) :
        /\ g.state \in {"Idle", "TriggeringExplosion"} => g.updatesWhileExploding = 0
        /\ g.state = "Exploding" => g.updatesWhileExploding \in 0..(ExplosionFadeoutStepsCount - 1)
        /\ g.state = "Expired" => g.updatesWhileExploding = ExplosionFadeoutStepsCount

\* an Update has just expired an impact bomb
C2_Witness ==
    /\ lastCall.op = "Gadgets::Update"
    /\ \E i \in DOMAIN mAllShips :
         \E g \in ImpactBombsOf(mAllShips[i]) :
           g.state = "Expired" /\ g.updatesWhileExploding = ExplosionFadeoutStepsCount

----------------------------------------------------------------------------
(* C3 *)

\* the explosion has been started and notified exactly once from Exploding
\* on, and never before
C3_ExplodedOnce ==
    \A i \in DOMAIN mAllShips :
      \A g \in ImpactBombsOf(mAllShips[i]) :
        /\ g.state \in {"Idle", "TriggeringExplosion"} =>
             g.startExplosionCalls = 0 /\ g.bombExplosionEvents = 0
        /\ g.state \in {"Exploding", "Expired"} =>
             g.startExplosionCalls = 1 /\ g.bombExplosionEvents = 1

\* the step of a gadget: StartExplosion and OnBombExplosion are made, once
\* each and in this order, exactly by the Update call that finds the gadget
\* in TriggeringExplosion, which leaves it Exploding; the state never goes back
C3_Step ==
    \A i \in DOMAIN mAllShips :
      \A g \in ImpactBombsOf(mAllShips[i]) :
        LET events == lastCall'.events
            started == CountEvents(events, "StartExplosion", g.id)
            notified == CountEvents(events, "OnBombExplosion", g.id)
        IN  /\ \A h \in GadgetsOf(mAllShips'[i]) :
                 h.id = g.id => /\ StateRank(h.state) >= StateRank(g.state)
                                /\ StateRank(h.state) <= StateRank(g.state) + 1
            /\ IF IsUpdateOf(i) /\ g.state = "TriggeringExplosion"
               THEN /\ started = 1 /\ notified = 1
                    /\ FirstEventAt(events, "StartExplosion", g.id)
                         < FirstEventAt(events, "OnBombExplosion", g.id)
                    /\ \E h \in GadgetsOf(mAllShips'[i]) : h.id = g.id /\ h.state = "Exploding"
               ELSE started = 0 /\ notified = 0

\* C3: over the life of an impact bomb StartExplosion is invoked once and
\* OnBombExplosion emitted once, in this order, both in the one Update call
\* that finds it in TriggeringExplosion and leaves it Exploding; the states
\* are visited in the order Idle, TriggeringExplosion, Exploding, Expired.
C3_ExplodesOnceInOrder == [] C3_ExplodedOnce /\ [][C3_Step]_vars

\* an Update has just exploded an impact bomb whose particle has meanwhile
\* cooled down to the trigger temperature
C3_Witness ==
    /\ lastCall.op = "Gadgets::Update"
    /\ \E i \in DOMAIN mAllShips :
         \E g \in ImpactBombsOf(mAllShips[i]) :
           /\ g.state = "Exploding" /\ g.updatesWhileExploding = 0
           /\ CountEvents(lastCall.events, "OnBombExplosion", g.id) = 1
           /\ GetTemperature(mAllShips[i], g.pointIndex) = BombsTemperatureTrigger

----------------------------------------------------------------------------
(* C4 *)

\* C4: after the Gadgets::Update sweep that removes a gadget because its
\* Update reported it expired, the particle that hosted the gadget is no
\* longer marked gadget-attached.
C4_ExpiredGadgetLeavesParticleDetached ==
    [][ \A i \in DOMAIN mAllShips :
          \A g \in GadgetsOf(mAllShips[i]) :
            (IsUpdateOf(i) /\ CountEvents(lastCall'.events, "OnGadgetRemoved", g.id) = 1)
                => ~ IsGadgetAttached(mAllShips'[i], g.pointIndex)
      ]_vars

----------------------------------------------------------------------------
(* C5 *)

\* the gadgets of a ship that Gadgets::Update calls: the collection, then the probe
UpdatedBySweep(ship) == ship.gadgets \o ship.physicsProbe

\* C5: a Gadgets::Update sweep calls Update once on every gadget; it erases
\* the gadgets whose Update returns false, with one OnGadgetRemoved each,
\* and keeps the others in their order.  An impact bomb that is Expired
\* before the sweep is erased by it; one that is Exploding before the sweep
\* is kept by it, also when the sweep makes it Expired.
C5_SweepUpdatesOnceAndErasesExpired ==
    [][ \A i \in DOMAIN mAllShips :
          IsUpdateOf(i) =>
            LET ship == mAllShips[i]
                events == lastCall'.events
                Active(g) == Gadget_UpdateDispatch(g, ship).isActive
            IN  /\ Len(EventsNamed(events, "Update")) = Len(UpdatedBySweep(ship))
                /\ \A k \in DOMAIN UpdatedBySweep(ship) :
                     CountEvents(events, "Update", UpdatedBySweep(ship)[k].id) = 1
                /\ IdsOf(mAllShips'[i].gadgets) = IdsOf(SelectSeq(ship.gadgets, Active))
                /\ \A g \in GadgetsOf(ship) :
                     CountEvents(events, "OnGadgetRemoved", g.id) = IF Active(g) THEN 0 ELSE 1
                /\ Len(EventsNamed(events, "OnGadgetRemoved"))
                     = Len(ship.gadgets) - Len(mAllShips'[i].gadgets)
                /\ \A g \in ImpactBombsOf(ship) :
                     /\ g.state = "Expired" => g.id \notin {h.id : h \in GadgetsOf(mAllShips'[i])}
                     /\ g.state # "Expired" => g.id \in {h.id : h \in GadgetsOf(mAllShips'[i])}
      ]_vars

\* a sweep has erased an expired gadget and then updated an impact bomb that followed it
C5_Witness ==
    /\ lastCall.op = "Gadgets::Update"
    /\ \E k, j \in DOMAIN lastCall.events :
         /\ k < j
         /\ lastCall.events[k].event = "OnGadgetRemoved"
         /\ lastCall.events[j].event = "Update"
         /\ lastCall.events[j].gadgetType = "ImpactBomb"

----------------------------------------------------------------------------
(* C6 *)

\* the particles of a ship that carry the attachment of a physics probe
ProbeAttachedPoints(ship) ==
    {p \in PointIndices(ship) :
        IsGadgetAttached(ship, p) /\ ship.points[p].attachedGadgetType = "PhysicsProbe"}

\* C6: a ship has at most one physics probe; when it has one, the particle
\* of the probe, and no other, carries the attachment of a probe; when it has
\* none, no particle carries the attachment of a probe.
C6_AtMostOneProbeAndItsParticleAttached ==
    \A i \in DOMAIN mAllShips :
      LET ship == mAllShips[i]
      IN  /\ Len(ship.physicsProbe) <= 1
          /\ ProbeAttachedPoints(ship) = {ship.physicsProbe[k].pointIndex : k \in DOMAIN ship.physicsProbe}

\* a toggle has just moved the probe from one particle to another
C6_Witness ==
    /\ lastCall.op = "TogglePhysicsProbeAt"
    /\ lastCall.result = "nullopt"
    /\ \E i \in DOMAIN mAllShips :
         /\ lastCall.shipId = i - 1
         /\ mAllShips[i].physicsProbe # << >>
         /\ ProbeInRadius(mAllShips[i], lastCall.targetPos, ToolSearchRadius * ToolSearchRadius)
         /\ ProbeAttachedPoints(mAllShips[i]) = {mAllShips[i].physicsProbe[1].pointIndex}

----------------------------------------------------------------------------
(* C7 *)

\* the squared distance of a particle of the ship from a position
SquareDistanceFrom(ship, p, pos) == squareLength(vecSub(ship.points[p].position, pos))

\* the particles a probe may be placed on: at least one connected spring, no
\* gadget attached, strictly within the search radius of pos
EligibleParticles(ship, pos) ==
    {p \in PointIndices(ship) :
        /\ ship.points[p].connectedSprings # {}
        /\ ~ ship.points[p].isGadgetAttached
        /\ SquareDistanceFrom(ship, p, pos) < ToolSearchRadius * ToolSearchRadius}

\* the eligible particles that no eligible particle is nearer than
NearestEligibleParticles(ship, pos) ==
    {p \in EligibleParticles(ship, pos) :
        \A q \in EligibleParticles(ship, pos) :
            SquareDistanceFrom(ship, p, pos) <= SquareDistanceFrom(ship, q, pos)}

\* the attachment marks of the particles of a ship
AttachmentMarks(ship) == [p \in PointIndices(ship) |-> ship.points[p].isGadgetAttached]

\* C7: TogglePhysicsProbeAt returns false exactly when a probe existed
\* strictly within the search radius, and then the probe is removed and none
\* placed; it returns true exactly when no probe existed and there was an
\* eligible particle, and then a nearest eligible particle gets the probe; it
\* returns no value otherwise: an existing probe out of the radius is moved
\* to a nearest eligible particle, and without eligible particle the ship is
\* left as it was.
C7_ToggleProbeResult ==
    [][ \A i \in DOMAIN mAllShips :
          (lastCall'.op = "TogglePhysicsProbeAt" /\ lastCall'.shipId = i - 1) =>
            LET ship == mAllShips[i]
                after == mAllShips'[i]
                pos == lastCall'.targetPos
                hadProbe == ship.physicsProbe # << >>
                probeNear == /\ hadProbe
                             /\ SquareDistanceFrom(ship, ship.physicsProbe[1].pointIndex, pos)
                                  < ToolSearchRadius * ToolSearchRadius
                eligible == EligibleParticles(ship, pos)
                nearest == NearestEligibleParticles(ship, pos)
                Placed == /\ after.physicsProbe # << >>
                          /\ after.physicsProbe[1].pointIndex \in nearest
                          /\ AttachmentMarks(after) =
                               [p \in PointIndices(ship) |->
                                  IF p = after.physicsProbe[1].pointIndex THEN TRUE
                                  ELSE IF hadProbe /\ p = ship.physicsProbe[1].pointIndex THEN FALSE
                                  ELSE ship.points[p].isGadgetAttached]
            IN  /\ lastCall'.result = "false" <=> probeNear
                /\ lastCall'.result = "true" <=> (~ hadProbe /\ eligible # {})
                /\ lastCall'.result \in {"false", "true", "nullopt"}
                /\ lastCall'.result = "false" =>
                     /\ after.physicsProbe = << >>
                     /\ AttachmentMarks(after) =
                          [AttachmentMarks(ship) EXCEPT ![ship.physicsProbe[1].pointIndex] = FALSE]
                /\ lastCall'.result = "true" => Placed
                /\ lastCall'.result = "nullopt" =>
                     IF eligible # {} THEN Placed ELSE after = ship
                /\ after.gadgets = ship.gadgets
      ]_vars

\* a toggle has just placed a probe on the nearest of several eligible particles
C7_Witness ==
    /\ lastCall.op = "TogglePhysicsProbeAt"
    /\ lastCall.result = "true"
    /\ \E i \in DOMAIN mAllShips :
         /\ lastCall.shipId = i - 1
         /\ mAllShips[i].physicsProbe # << >>
         /\ \E q \in EligibleParticles(mAllShips[i], lastCall.targetPos) :
              SquareDistanceFrom(mAllShips[i], q, lastCall.targetPos)
                > SquareDistanceFrom(mAllShips[i], mAllShips[i].physicsProbe[1].pointIndex, lastCall.targetPos)

----------------------------------------------------------------------------
(* C8 *)

\* C8: in every reachable state a particle with no connected spring is not
\* marked gadget-attached.
C8_NoGadgetOnSpringlessParticle ==
    \A i \in DOMAIN mAllShips :
      \A p \in PointIndices(mAllShips[i]) :
        GetConnectedSprings(mAllShips[i], p) = {} => ~ IsGadgetAttached(mAllShips[i], p)

----------------------------------------------------------------------------
(* C9 *)

\* the toggle operations of World and the kind each passes to the ships
ToggleKindOf(op) ==
    CASE op = "ToggleImpactBombAt"     -> "ImpactBomb"
      [] op = "ToggleTimerBombAt"      -> "TimerBomb"
      [] op = "ToggleRCBombAt"         -> "RCBomb"
      [] op = "ToggleAntiMatterBombAt" -> "AntiMatterBomb"
      [] op = "TogglePinAt"            -> "Pin"

ToggleOps ==
    {"ToggleImpactBombAt", "ToggleTimerBombAt", "ToggleRCBombAt", "ToggleAntiMatterBombAt", "TogglePinAt"}

\* the ShipIds of the ships at positions last down to first, in this order
ReverseInsertionOrder(ships, first) ==
    [k \in 1..(Len(ships) - first + 1) |-> ships[Len(ships) - k + 1].shipId]

\* C9: a toggle of World asks the ships in reverse insertion order and stops
\* at the first that reports success: the ships asked are the most recently
\* added ship that can handle the position and those added after it, only
\* that ship is changed, and the ships added before it are not asked; when no
\* ship can handle the position all are asked and none is changed.
C9_TogglesAskShipsInReverseOrder ==
    [][ lastCall'.op \in ToggleOps =>
          LET ships == mAllShips
              Toggled(i) == Ship_ToggleAt(ships[i], ToggleKindOf(lastCall'.op),
                                          lastCall'.targetPos, ToolSearchRadius)
              capable == {i \in DOMAIN ships : Toggled(i).result}
          IN  IF capable # {}
              THEN LET w == CHOOSE i \in capable : \A j \in capable : j <= i
                   IN  /\ lastCall'.invoked = ReverseInsertionOrder(ships, w)
                       /\ mAllShips' = [ships EXCEPT ![w] = Toggled(w).ship]
                       /\ lastCall'.events = Toggled(w).events
              ELSE /\ lastCall'.invoked = ReverseInsertionOrder(ships, 1)
                   /\ mAllShips' = ships
                   /\ lastCall'.events = << >>
      ]_vars

\* a toggle that both ships could handle has just been handled by the ship
\* added last, the ship added first not having been asked
C9_Witness ==
    /\ lastCall.op \in ToggleOps
    /\ Len(mAllShips) = 2
    /\ lastCall.invoked = << 1 >>
    /\ lastCall.events # << >>
    /\ Ship_ToggleAt(mAllShips[1], ToggleKindOf(lastCall.op), lastCall.targetPos, ToolSearchRadius).result
    /\ mAllShips[1].gadgets = << >> /\ mAllShips[1].pinnedPoints = {}

----------------------------------------------------------------------------
(* C10 *)

\* the gadgets and the attachment marks of the ships
GadgetsAndMarks(ships) ==
    [i \in DOMAIN ships |-> [gadgets |-> GadgetsOf(ships[i]), marks |-> AttachmentMarks(ships[i])]]

----------------------------------------------------------------------------
(* C11 *)

\* the subsystems World::Update updates before the ships, in order
SubsystemsInOrder ==
    << "Stars", "Storm", "Wind", "Clouds", "OceanSurface", "OceanFloor", "Fishes" >>

\* the entry of the log reads the storm parameters calculated at the time
ReadsStormOf(entry, currentSimulationTime) ==
    /\ entry.stormParameters # NotRead
    /\ entry.stormParameters.calculatedAt = currentSimulationTime

\* the entry of the log reads the wind calculated out of the storm
\* parameters of the time
ReadsWindOf(entry, currentSimulationTime) ==
    /\ entry.wind # NotRead
    /\ entry.wind.stormParameters # NotRead
    /\ entry.wind.stormParameters.calculatedAt = currentSimulationTime

\* C11: every World::Update updates each subsystem exactly once, in the
\* order stars, storm, wind, clouds, ocean surface, ocean floor, fishes, and
\* then every ship once in insertion order; the wind reads the storm
\* parameters calculated in the same step, and the clouds, the ocean surface
\* and the ships read the wind and the storm values of the same step.
C11_UpdatesSubsystemsInOrder ==
    lastCall.op = "World::Update" =>
      LET log == lastCall.invoked
          now == world.mCurrentSimulationTime
          subsystems == Len(SubsystemsInOrder)
      IN  /\ Len(log) = subsystems + Len(mAllShips)
          /\ \A i \in 1..subsystems : log[i].subsystem = SubsystemsInOrder[i]
          /\ \A i \in 1..Len(mAllShips) :
               /\ log[subsystems + i].subsystem = "Ship"
               /\ log[subsystems + i].shipId = mAllShips[i].shipId
               /\ log[subsystems + i].shipId = i - 1
          /\ ReadsStormOf(log[3], now)
          /\ ReadsStormOf(log[4], now) /\ ReadsWindOf(log[4], now)
          /\ ReadsStormOf(log[5], now) /\ ReadsWindOf(log[5], now)
          /\ \A i \in 1..Len(mAllShips) :
               ReadsStormOf(log[subsystems + i], now) /\ ReadsWindOf(log[subsystems + i], now)

\* the second World::Update of a world of two ships has just run
C11_Witness ==
    /\ lastCall.op = "World::Update"
    /\ Len(mAllShips) = 2
    /\ world.mCurrentSimulationTime = FAdd(SimulationStepTimeDuration, SimulationStepTimeDuration)
    /\ Len(lastCall.invoked) = 9
    /\ lastCall.invoked[8].shipId = 0
    /\ lastCall.invoked[9].shipId = 1

----------------------------------------------------------------------------
(* C12 *)

\* the simulation steps run so far
StepsRun == MaxWorldSteps - environment.inputs.stepsLeft

\* C12: the simulation time starts at 0 and is increased by exactly one
\* SimulationStepTimeDuration by every World::Update, before any subsystem is
\* updated, and by no other operation of World: it is the number of steps
\* run times the duration of a step, and never decreases; every subsystem
\* updated in a step, and every interaction after it, is handed that time.
C12_SimulationTimeAdvancesOncePerUpdate ==
    /\ world.mCurrentSimulationTime = FMul(FInt(StepsRun), SimulationStepTimeDuration)
    /\ lastCall.op = "World" => world.mCurrentSimulationTime = F(0)
    /\ lastCall.op \in {"World::Update", "World::AdjustOceanSurfaceTo"} =>
         /\ lastCall.invoked # << >>
         /\ \A i \in DOMAIN lastCall.invoked :
              lastCall.invoked[i].currentSimulationTime = world.mCurrentSimulationTime

\* World::AdjustOceanSurfaceTo has just been called after the second World::Update
C12_Witness ==
    /\ lastCall.op = "World::AdjustOceanSurfaceTo"
    /\ StepsRun = 2
    /\ world.mCurrentSimulationTime = FInt(4)
    /\ lastCall.invoked[1].currentSimulationTime = FInt(4)
    /\ world.mOceanSurface.mSWEInteractiveWaveStateMachine # << >>
    /\ world.mOceanSurface.mSWEInteractiveWaveStateMachine[1].mStartSimulationTime = FInt(4)

----------------------------------------------------------------------------
(* C13 *)

\* the abnormal wave state machine of the kind, if any
AbnormalWaveOf(o, kind) ==
    IF kind = "Tsunami" THEN o.mSWETsunamiWaveStateMachine ELSE o.mSWERogueWaveWaveStateMachine

\* the abnormal waves generated by the step, out of the history
SpawnedByStep ==
    { world'.mOceanSurface.spawns[i] :
        i \in (Len(world.mOceanSurface.spawns) + 1)..Len(world'.mOceanSurface.spawns) }

C13_Step ==
    \A s \in SpawnedByStep :
      /\ lastCall'.op = "World::Update"
      /\ AbnormalWaveOf(world.mOceanSurface, s.kind) = << >>
      /\ AbnormalWaveOf(world'.mOceanSurface, s.kind) # << >>
      /\ s.now = environment'.now
      /\ s.now > s.nextTimestamp

\* C13: a tsunami or a rogue wave is generated automatically only by an
\* Update that finds no state machine of that kind, and the wall clock
\* strictly past the timestamp scheduled for the kind; an Update that finds
\* a state machine of the kind generates none, also when that machine
\* completes in the Update.
C13_SpawnsOnlyWhenIdleAndDue == [][C13_Step]_vars

\* a tsunami has completed, and the next has been generated by a later Update
C13_Witness ==
    /\ lastCall.op = "World::Update"
    /\ Len(world.mOceanSurface.spawns) >= 3
    /\ \E i, j \in DOMAIN world.mOceanSurface.spawns :
         /\ i < j
         /\ world.mOceanSurface.spawns[i].kind = "Tsunami"
         /\ world.mOceanSurface.spawns[j].kind = "Tsunami"
         /\ world.mOceanSurface.spawns[j].now = environment.now
    /\ world.mOceanSurface.mSWETsunamiWaveStateMachine # << >>

----------------------------------------------------------------------------
(* C14 *)

\* the abnormal waves of the kind generated so far, in order
SpawnsOfKind(o, kind) == SelectSeq(o.spawns, LAMBDA s : s.kind = kind)

\* the time of the wall clock of the last abnormal wave of the kind that was
\* generated automatically, or of the construction when there is none
LastSpawnOrConstruction(o, kind) ==
    IF SpawnsOfKind(o, kind) = << >> THEN 0
    ELSE SpawnsOfKind(o, kind)[Len(SpawnsOfKind(o, kind))].now

\* the timestamp scheduled for the kind leaves the grace period after the
\* last wave of the kind
ScheduledAfterGracePeriod(o, kind, rate, nextTimestamp, lastTimestamp) ==
    /\ lastTimestamp = LastSpawnOrConstruction(o, kind)
    /\ rate > 0 => nextTimestamp >= lastTimestamp + AbnormalWaveGracePeriod
    /\ rate = 0 => nextTimestamp = TimePointMax

\* C14: while the rate of a kind of abnormal wave is positive, the timestamp
\* scheduled for the next wave of the kind is at least 120 seconds after the
\* last automatically generated wave of the kind, or after the construction,
\* also after a change of the rate; two automatically generated waves of a
\* kind are more than 120 seconds of wall clock apart.
C14_GracePeriodBetweenSpawns ==
    LET o == world.mOceanSurface
    IN  /\ ScheduledAfterGracePeriod(o, "Tsunami", o.mTsunamiRate,
                                     o.mNextTsunamiTimestamp, o.mLastTsunamiTimestamp)
        /\ ScheduledAfterGracePeriod(o, "RogueWave", o.mRogueWaveRate,
                                     o.mNextRogueWaveTimestamp, o.mLastRogueWaveTimestamp)
        /\ \A kind \in {"Tsunami", "RogueWave"} :
             \A i \in 1..(Len(SpawnsOfKind(o, kind)) - 1) :
               SpawnsOfKind(o, kind)[i + 1].now > SpawnsOfKind(o, kind)[i].now + AbnormalWaveGracePeriod

\* two rogue waves and a tsunami have been generated, and the rates have been
\* changed: the next rogue wave is scheduled after the grace period
C14_Witness ==
    /\ lastCall.op = "World::Update"
    /\ Len(SpawnsOfKind(world.mOceanSurface, "RogueWave")) >= 2
    /\ Len(SpawnsOfKind(world.mOceanSurface, "Tsunami")) >= 1
    /\ world.mOceanSurface.mRogueWaveRate > 0
    /\ world.mOceanSurface.mNextRogueWaveTimestamp = environment.now + AbnormalWaveGracePeriod + 10
    /\ environment.inputs.interactionsLeft = 0

----------------------------------------------------------------------------
(* C15 *)

\* the steps of the last OceanSurface::Update, after the recalculations that
\* a change of parameters makes before the first step
StepsOfUpdate(o) ==
    SelectSeq(o.trace, LAMBDA step : step \notin {"RecalculateWaveCoefficients",
                                                  "RecalculateAbnormalWaveTimestamps"})

\* the delta-height buffer is all zero
IsClear(buffer) == \A i \in DeltaHeightIndices : buffer[i] = F(0)

C15_Step ==
    lastCall'.op = "World::Update" =>
      /\ StepsOfUpdate(world'.mOceanSurface) =
           << "AdvanceWaveStateMachines", "ApplyDampingBoundaryConditions",
              "IncorporateDeltaHeight", "IntegrateFields", "ClearDeltaHeightBuffer",
              "GenerateSamples" >>
      /\ IsClear(world'.mOceanSurface.mDeltaHeightBuffer)
      /\ world'.mOceanSurface.folded = world.mOceanSurface.mDeltaHeightBuffer
      /\ lastCall.op = "World::Update" => IsClear(world'.mOceanSurface.folded)

\* C15: every OceanSurface::Update advances the wave state machines and
\* writes their heights, applies the boundary damping, folds the delta-height
\* buffer into the height field, integrates the fields, clears the buffer and
\* generates the samples, in this order; the buffer is all zero after the
\* Update, so that what was accumulated before an Update is folded by that
\* Update, and by no later one.
C15_UpdateStepsInOrderAndBufferFoldedOnce == [][C15_Step]_vars

\* two disturbances at the same sample have been folded by the Update after
\* them, while a rogue wave was going on
C15_Witness ==
    /\ lastCall.op = "World::Update"
    /\ \E i \in 0..(SamplesCount - 1) : world.mOceanSurface.folded[i] = F(180000)
    /\ IsClear(world.mOceanSurface.mDeltaHeightBuffer)
    /\ \E c \in FieldIndices : world.mOceanSurface.mHeightField[c] # SWEHeightFieldOffset
    /\ environment.inputs.stepsLeft = 0

----------------------------------------------------------------------------
(* C16 *)

\* the index of boundary cell i counted from the right end: of the height
\* field, and of the velocity field
RightHeightCell(i) == SWETotalSamples - 1 - i
RightVelocityCell(i) == SWETotalSamples - i

\* the deviation after is the deviation before scaled by i / SWEBoundaryConditionsSamples,
\* up to the rounding of the quotient and of the product
IsScaledBy(after, before, i) ==
    /\ IsNum(after) /\ IsNum(before)
    /\ SWEBoundaryConditionsSamples * after.v - i * before.v <= 2 * SWEBoundaryConditionsSamples
    /\ i * before.v - SWEBoundaryConditionsSamples * after.v <= 2 * SWEBoundaryConditionsSamples

\* C16: ApplyDampingBoundaryConditions scales the deviation from rest of
\* boundary cell i, counted from each end, by i / SWEBoundaryConditionsSamples:
\* right after it the outermost height cell of each end is SWEHeightFieldOffset
\* exactly and the outermost velocity cell of each end is 0 exactly; the
\* factor strictly increases with i and stays below 1; the cells outside the
\* two bands are unchanged.
C16_DampingScalesBoundaryCells ==
    lastCall.op = "OceanSurface::ApplyDampingBoundaryConditions" =>
      LET before == lastCall.invoked[1]
          h == world.mOceanSurface.mHeightField
          v == world.mOceanSurface.mVelocityField
          band == 0..(SWEBoundaryConditionsSamples - 1)
      IN  /\ \A i \in band :
               /\ IsScaledBy(FSub(h[i], SWEHeightFieldOffset),
                             FSub(before.h[i], SWEHeightFieldOffset), i)
               /\ IsScaledBy(FSub(h[RightHeightCell(i)], SWEHeightFieldOffset),
                             FSub(before.h[RightHeightCell(i)], SWEHeightFieldOffset), i)
               /\ IsScaledBy(v[i], before.v[i], i)
               /\ IsScaledBy(v[RightVelocityCell(i)], before.v[RightVelocityCell(i)], i)
          /\ h[0] = SWEHeightFieldOffset
          /\ h[RightHeightCell(0)] = SWEHeightFieldOffset
          /\ v[0] = F(0)
          /\ v[RightVelocityCell(0)] = F(0)
          /\ \A i \in band :
               /\ FLess(DampingOf(i), FInt(1))
               /\ i > 0 => FLess(DampingOf(i - 1), DampingOf(i))
          /\ \A c \in FieldIndices :
               /\ c \notin band \cup {RightHeightCell(i) : i \in band} => h[c] = before.h[c]
               /\ c \notin band \cup {RightVelocityCell(i) : i \in band} => v[c] = before.v[c]

\* the damping has been applied to fields whose outermost cells were away
\* from rest, and whose cells next to the bands were too
C16_Witness ==
    /\ lastCall.op = "OceanSurface::ApplyDampingBoundaryConditions"
    /\ lastCall.invoked[1].h[0] = F(1234567)
    /\ lastCall.invoked[1].h[RightHeightCell(0)] = F(812345)
    /\ lastCall.invoked[1].v[0] = F(-250000)
    /\ lastCall.invoked[1].v[RightVelocityCell(0)] = F(-250000)
    /\ world.mOceanSurface.mHeightField[2] # lastCall.invoked[1].h[2]
    /\ world.mOceanSurface.mHeightField[2] # SWEHeightFieldOffset
    /\ world.mOceanSurface.mHeightField[SWEBoundaryConditionsSamples] # SWEHeightFieldOffset

----------------------------------------------------------------------------
(* C17 *)

\* the interactive wave of the world
InteractiveWave == world.mOceanSurface.mSWEInteractiveWaveStateMachine[1]

\* an interactive wave is rising, and the last Update has returned its height
IsRisingAfterUpdate ==
    /\ lastCall.op = "World::Update"
    /\ world.mOceanSurface.mSWEInteractiveWaveStateMachine # << >>
    /\ InteractiveWave.mCurrentWavePhase = "Rise"

\* the heights a rising wave may be restarted to: the heights the user may
\* drag the surface to, and the original height of the wave
RestartHeights(m) ==
    { InteractiveWaveTargetHeight(c) : c \in InteractiveWaveCoordinates } \cup { m.mOriginalHeight }

\* the two heights differ by less than 0.001
HeightsAgree(a, b) ==
    /\ IsNum(a) /\ IsNum(b)
    /\ a.v - b.v < 100
    /\ b.v - a.v < 100

\* the height that Update returns at the time right after Restart at that time
HeightAfterRestart(m, restartHeight, currentSimulationTime) ==
    InteractiveWave_Update(InteractiveWave_Restart(m, restartHeight, currentSimulationTime),
                           currentSimulationTime).heightValue[1]

\* C17: for a rising interactive wave and every height it is restarted to,
\* the original height of the wave included, also when the rise has run to
\* completion, the height that Update returns at time t right after
\* Restart(height, t) is the height that the Update at time t has returned
\* before the Restart.
C17_RestartKeepsHeight ==
    IsRisingAfterUpdate =>
      \A restartHeight \in RestartHeights(InteractiveWave) :
        HeightsAgree(HeightAfterRestart(InteractiveWave, restartHeight, world.mCurrentSimulationTime),
                     InteractiveWave.mCurrentHeight)

----------------------------------------------------------------------------
(* C18 *)

\* the displacement of the wave from its original height
Displacement(m) == FSub(m.mCurrentHeight, m.mOriginalHeight)

\* the displacement after is the displacement before times 1 - k, up to the
\* rounding of the product, for a k in (0, 1); it is nearer to zero, and on
\* the same side of it
IsShrunkBy(after, before, k) ==
    /\ IsNum(after) /\ IsNum(before) /\ IsNum(k)
    /\ k.v > 0 /\ k.v < Scale
    /\ after.v - MulDiv(before.v, Scale - k.v, Scale) <= 1
    /\ MulDiv(before.v, Scale - k.v, Scale) - after.v <= 1
    /\ Sign(after.v) \in {Sign(before.v), 0}
    /\ before.v # 0 => Sign(after.v) * after.v < Sign(before.v) * before.v

\* the interactive wave of the ocean surface, if any
InteractiveWaveOf(w) == w.mOceanSurface.mSWEInteractiveWaveStateMachine

\* the interactive wave of the ocean surface is falling
IsFalling(w) ==
    /\ InteractiveWaveOf(w) # << >>
    /\ InteractiveWaveOf(w)[1].mCurrentWavePhase = "Fall"

\* the Update of the step has shrunk the displacement of the falling wave,
\* and has removed the wave if the displacement is then less than 0.001
FallsOn(before, after) ==
    \/ /\ after = << >>
       /\ IsNum(Displacement(before))
    \/ /\ after # << >>
       /\ after[1].mCurrentWavePhase = "Fall"
       /\ after[1].mOriginalHeight = before.mOriginalHeight
       /\ after[1].mFallingPhaseDecayCoefficient = before.mFallingPhaseDecayCoefficient
       /\ IsShrunkBy(Displacement(after[1]), Displacement(before), before.mFallingPhaseDecayCoefficient)
       /\ ~ FLess(FAbs(Displacement(after[1])), F(100))

C18_Step ==
    /\ (IsFalling(world) /\ lastCall'.op = "World::Update") =>
         FallsOn(InteractiveWaveOf(world)[1], InteractiveWaveOf(world'))
    /\ (InteractiveWaveOf(world) = << >> /\ InteractiveWaveOf(world') # << >>) =>
         /\ lastCall'.op = "World::AdjustOceanSurfaceTo"
         /\ lastCall'.targetPos # << >>

\* C18: after Release, without a further AdjustTo, every Update shrinks the
\* displacement of the interactive wave from its original height by a
\* constant factor in (0, 1), without a change of sign, so that after
\* finitely many Updates the displacement is less than 0.001, the machine
\* reports completion and OceanSurface removes it; from then on there is no
\* interactive wave until the next AdjustTo with coordinates.
C18_ReleasedWaveFallsToCompletion == [][C18_Step]_vars

----------------------------------------------------------------------------
(* C19 *)

\* the height lies between the low and the high height of the wave
IsBetweenLowAndHigh(m, height) ==
    /\ FGreaterEq(height, StdMin(m.mLowHeight, m.mHighHeight))
    /\ FGreaterEq(StdMax(m.mLowHeight, m.mHighHeight), height)

\* the Update of wave m at the time has returned r: a height between low and
\* high, the high height if it has ended the rise, and no rise after the
\* fall; and it has reported completion, or the wave completes within n more
\* Updates, the time growing by the simulation step
RECURSIVE AbnormalWave_RunsOn(_, _, _, _)
AbnormalWave_RunsOn(m, r, currentSimulationTime, n) ==
    /\ r.heightValue # << >> => IsBetweenLowAndHigh(m, r.heightValue[1])
    /\ (m.mCurrentWavePhase = "Rise" /\ r.machine.mCurrentWavePhase = "Fall") =>
         r.heightValue = << m.mHighHeight >>
    /\ m.mCurrentWavePhase = "Fall" => r.machine.mCurrentWavePhase = "Fall"
    /\ r.heightValue = << >> => m.mCurrentWavePhase = "Fall"
    /\ \/ r.heightValue = << >>
       \/ /\ n > 0
          /\ AbnormalWave_RunsOn(
                 r.machine,
                 AbnormalWave_Update(r.machine, FAdd(currentSimulationTime, SimulationStepTimeDuration)),
                 FAdd(currentSimulationTime, SimulationStepTimeDuration), n - 1)

\* the wave, last updated at the time, completes within n Updates
AbnormalWave_RunsToCompletion(m, currentSimulationTime, n) ==
    AbnormalWave_RunsOn(
        m, AbnormalWave_Update(m, FAdd(currentSimulationTime, SimulationStepTimeDuration)),
        FAdd(currentSimulationTime, SimulationStepTimeDuration), n - 1)

\* C19: an abnormal wave state machine with positive rise and fall delays,
\* updated at times that grow by the simulation step, rises, then falls,
\* then reports completion, after finitely many Updates and without rising
\* again; every height it returns lies between its low and its high height,
\* and the Update that ends the rise returns the high height exactly; a
\* machine that has reported completion is not kept by OceanSurface.
C19_AbnormalWaveRisesFallsAndCompletes ==
    \A kind \in {"Tsunami", "RogueWave"} :
      AbnormalWaveOf(world.mOceanSurface, kind) # << >> =>
        LET m == AbnormalWaveOf(world.mOceanSurface, kind)[1]
        IN  /\ FLess(F(0), m.mCurrentPhaseDelay) /\ FLess(F(0), m.mFallDelay)
            /\ FLess(m.mCurrentProgress, FInt(1))
            /\ AbnormalWave_RunsToCompletion(m, world.mCurrentSimulationTime, MaxAbnormalWaveUpdates)

\* the Update that ended the rise of a tsunami has just run, and a rogue wave
\* has completed before
C19_Witness ==
    /\ lastCall.op = "World::Update"
    /\ world.mOceanSurface.mSWETsunamiWaveStateMachine # << >>
    /\ world.mOceanSurface.mSWETsunamiWaveStateMachine[1].mCurrentWavePhase = "Fall"
    /\ world.mOceanSurface.mSWETsunamiWaveStateMachine[1].mCurrentPhaseStartSimulationTime =
         world.mCurrentSimulationTime
    /\ world.mOceanSurface.mSWERogueWaveWaveStateMachine = << >>
    /\ SpawnsOfKind(world.mOceanSurface, "RogueWave") # << >>

----------------------------------------------------------------------------
(* C20 *)

\* the particles of the ship within the capture radius of the target
PointsWithinCaptureRadius(ship, targetPos) ==
    {p \in PointIndices(ship) : 2 * SquareDistanceFrom(ship, p, targetPos) < NearestDistanceX2}

\* no particle of the ship is nearer to the target than p
IsOfLeastSquareDistance(ship, targetPos, p) ==
    \A q \in PointIndices(ship) :
        SquareDistanceFrom(ship, p, targetPos) <= SquareDistanceFrom(ship, q, targetPos)

\* the propagation that left these sparks was seeded at particle p: p is
\* electrified, the arcs are marked as populated, and the first arc leaves p
IsSeededAt(sparks, p) ==
    /\ sparks.mIsPointElectrified[p]
    /\ sparks.mAreSparksPopulatedBeforeNextUpdate
    /\ sparks.mSparksToRender # << >> => sparks.mSparksToRender[1].StartPointIndex = p

\* the arcs, both buffers of the springs, the marks of the particles and
\* the populated flag of a are those of b
SparksAreAsBefore(a, b) ==
    /\ a.mSparksToRender = b.mSparksToRender
    /\ a.mIsSpringElectrified = b.mIsSpringElectrified
    /\ a.mIsSpringElectrifiedBackup = b.mIsSpringElectrifiedBackup
    /\ a.mIsPointElectrified = b.mIsPointElectrified
    /\ a.mAreSparksPopulatedBeforeNextUpdate = b.mAreSparksPopulatedBeforeNextUpdate

\* C20: ApplySparkAt returns false exactly when no particle of the ship
\* lies within the capture radius of the target, and then the arcs to
\* render, both buffers of the springs, the marks of the particles and the
\* populated flag are as before the call; otherwise it returns true and the
\* propagation is seeded at a particle of least squared distance to the target.
C20_ApplySparkAtSeedsAtNearestOrChangesNothing ==
    lastCall.op = "ShipElectricSparks::ApplySparkAt" =>
        /\ lastCall.result \in BOOLEAN
        /\ (lastCall.result = FALSE) <=>
               (PointsWithinCaptureRadius(mAllShips[lastCall.shipId + 1], lastCall.targetPos) = {})
        /\ lastCall.result = FALSE =>
               SparksAreAsBefore(mAllShips[lastCall.shipId + 1].mElectricSparks,
                                 lastCall.invoked[1].sparks)
        /\ lastCall.result = TRUE =>
               /\ lastCall.invoked[1].startingPointIndex \in
                      PointsWithinCaptureRadius(mAllShips[lastCall.shipId + 1], lastCall.targetPos)
               /\ IsOfLeastSquareDistance(mAllShips[lastCall.shipId + 1], lastCall.targetPos,
                                          lastCall.invoked[1].startingPointIndex)
               /\ IsSeededAt(mAllShips[lastCall.shipId + 1].mElectricSparks,
                             lastCall.invoked[1].startingPointIndex)

\* ApplySparkAt has returned false on a ship whose previous spark left arcs
\* to render, electrified springs and the populated flag set
C20_Witness ==
    /\ lastCall.op = "ShipElectricSparks::ApplySparkAt"
    /\ lastCall.result = FALSE
    /\ lastCall.invoked[1].sparks.mSparksToRender # << >>
    /\ lastCall.invoked[1].sparks.mAreSparksPopulatedBeforeNextUpdate
    /\ \E s \in DOMAIN lastCall.invoked[1].sparks.mIsSpringElectrified :
           lastCall.invoked[1].sparks.mIsSpringElectrified[s]
    /\ \E s \in DOMAIN lastCall.invoked[1].sparks.mIsSpringElectrifiedBackup :
           lastCall.invoked[1].sparks.mIsSpringElectrifiedBackup[s]

----------------------------------------------------------------------------
(* C21 *)

\* min(counter + 1, 25) for a counter given as a residue modulo 2^64
PathLengthBudget(counter) ==
    IF counter = -1 \/ counter + 1 > MaxPathLength THEN MaxPathLength ELSE counter + 1

\* the state of the sparks of the ship of the last call, and the history of
\* its last propagation
SparksOfLastCall == mAllShips[lastCall.shipId + 1].mElectricSparks

PropagationOfLastCall == SparksOfLastCall.history

HasPropagated ==
    lastCall.op = "ShipElectricSparks::ApplySparkAt" /\ lastCall.result = TRUE

\* C21: PropagateSparks terminates: the path length of an arc grows by one
\* per spring hop, a visit is queued only with a path length below
\* min(counter + 1, 25), there are at most min(counter + 1, 25) expansion
\* rounds, and no rendered arc ends at a path length above that budget.
C21_PropagationStaysWithinPathLengthBudget ==
    HasPropagated =>
        /\ Len(PropagationOfLastCall.arcs) = Len(SparksOfLastCall.mSparksToRender)
        /\ \A i \in DOMAIN PropagationOfLastCall.arcs :
               /\ PropagationOfLastCall.arcs[i].endPathLength
                      = PropagationOfLastCall.arcs[i].startPathLength + 1
               /\ PropagationOfLastCall.arcs[i].endPathLength
                      <= PathLengthBudget(PropagationOfLastCall.counter[1])
        /\ \A i \in DOMAIN PropagationOfLastCall.queued :
               PropagationOfLastCall.queued[i] < PathLengthBudget(PropagationOfLastCall.counter[1])
        /\ \A i \in DOMAIN PropagationOfLastCall.visits :
               PropagationOfLastCall.visits[i].EquivalentPathLength
                   = PropagationOfLastCall.visits[i].round
        /\ PropagationOfLastCall.rounds <= PathLengthBudget(PropagationOfLastCall.counter[1])

\* a propagation has run as many expansion rounds as its budget allows at
\* most: with the counter 3, three rounds, the last arc ending at path
\* length 4
C21_Witness ==
    /\ HasPropagated
    /\ PropagationOfLastCall.counter = << 3 >>
    /\ PropagationOfLastCall.rounds = 3
    /\ \E i \in DOMAIN PropagationOfLastCall.arcs :
           PropagationOfLastCall.arcs[i].endPathLength = 4

----------------------------------------------------------------------------
(* C22 *)

\* the arcs of the expansion hops that leave particle p
HopsFrom(propagation, p) ==
    {i \in DOMAIN propagation.arcs :
        ~ propagation.arcs[i].isStartingArc /\ propagation.arcs[i].from = p}

\* the particles continued both along a spring electrified in the previous
\* interaction and along one that was not
ForkedPoints(propagation) ==
    {p \in DOMAIN propagation.read :
        /\ \E i \in HopsFrom(propagation, p) : propagation.read[propagation.arcs[i].spring]
        /\ \E i \in HopsFrom(propagation, p) : ~ propagation.read[propagation.arcs[i].spring]}

\* the visits at which the fork decision was taken
ForkDecisions(propagation) ==
    {i \in DOMAIN propagation.visits : propagation.visits[i].doFork}

\* C22: in one spark interaction at most one particle is continued both
\* along a previously electrified spring and along a newly chosen one, and
\* the fork decision is taken at most once: no visit after it takes it.
C22_AtMostOneForkPerInteraction ==
    HasPropagated =>
        /\ Cardinality(ForkedPoints(PropagationOfLastCall)) <= 1
        /\ Cardinality(ForkDecisions(PropagationOfLastCall)) <= 1
        /\ \A i \in ForkDecisions(PropagationOfLastCall) :
               /\ ~ PropagationOfLastCall.visits[i].hasForkedBefore
               /\ \A j \in DOMAIN PropagationOfLastCall.visits :
                      j > i => PropagationOfLastCall.visits[j].hasForkedBefore

\* a propagation has forked at a particle, and a later visit with exactly
\* one previously electrified spring to follow has not forked
C22_Witness ==
    /\ HasPropagated
    /\ ForkedPoints(PropagationOfLastCall) # {}
    /\ \E i \in ForkDecisions(PropagationOfLastCall) :
           \E j \in DOMAIN PropagationOfLastCall.visits :
               /\ j > i
               /\ Len(PropagationOfLastCall.visits[j].selectedFirst) = 1

----------------------------------------------------------------------------
(* C23 *)

\* the springs of the ship that, at visit v of the propagation, were
\* electrified in the previous interaction, are not the incoming spring,
\* lead to a particle not yet electrified, and point along the incoming
\* direction
PreferredSprings(ship, propagation, v) ==
    {s \in GetConnectedSprings(ship, v.PointIndex) :
        /\ propagation.read[s]
        /\ s # v.IncomingSpringIndex
        /\ GetOtherEndpointIndex(ship, s, v.PointIndex) \notin v.electrifiedPoints
        /\ vecDot(vecSub(GetPosition(ship, GetOtherEndpointIndex(ship, s, v.PointIndex)),
                         GetPosition(ship, v.PointIndex)),
                  v.Direction) > 0}

\* the elements of a sequence
ElementsOf(seq) == {seq[i] : i \in DOMAIN seq}

\* C23: at every visited particle the springs selected first are all the
\* springs electrified in the previous interaction that are not the
\* incoming one, lead to a particle not yet electrified and have a strictly
\* positive alignment; a spring not electrified in the previous interaction
\* is among the springs only when none was selected first, or exactly one
\* and a fork or a reroute was drawn; and a reroute leaves exactly one spring.
C23_PreviouslyElectrifiedSpringsComeFirst ==
    HasPropagated =>
        \A i \in DOMAIN PropagationOfLastCall.visits :
            /\ ElementsOf(PropagationOfLastCall.visits[i].selectedFirst)
                   = PreferredSprings(mAllShips[lastCall.shipId + 1], PropagationOfLastCall,
                                      PropagationOfLastCall.visits[i])
            /\ Len(PropagationOfLastCall.visits[i].selectedFirst)
                   = Cardinality(ElementsOf(PropagationOfLastCall.visits[i].selectedFirst))
            /\ (\E s \in ElementsOf(PropagationOfLastCall.visits[i].withNewSpring) \cup
                         ElementsOf(PropagationOfLastCall.visits[i].nextSprings) :
                    ~ PropagationOfLastCall.read[s]) =>
                   \/ Len(PropagationOfLastCall.visits[i].selectedFirst) = 0
                   \/ /\ Len(PropagationOfLastCall.visits[i].selectedFirst) = 1
                      /\ \/ PropagationOfLastCall.visits[i].doFork
                         \/ PropagationOfLastCall.visits[i].doReroute
            /\ (PropagationOfLastCall.visits[i].doFork \/ PropagationOfLastCall.visits[i].doReroute) =>
                   Len(PropagationOfLastCall.visits[i].selectedFirst) = 1
            /\ PropagationOfLastCall.visits[i].doReroute =>
                   Len(PropagationOfLastCall.visits[i].nextSprings) = 1

\* a visit has found a previously electrified spring that does not point
\* along its direction and has not selected it, and a visit of the same propagation has
\* selected two springs first
C23_Witness ==
    /\ HasPropagated
    /\ \E i \in DOMAIN PropagationOfLastCall.visits :
           Len(PropagationOfLastCall.visits[i].selectedFirst) = 2
    /\ \E i \in DOMAIN PropagationOfLastCall.visits :
           \E s \in GetConnectedSprings(mAllShips[lastCall.shipId + 1],
                                        PropagationOfLastCall.visits[i].PointIndex) :
               /\ PropagationOfLastCall.read[s]
               /\ s # PropagationOfLastCall.visits[i].IncomingSpringIndex
               /\ GetOtherEndpointIndex(mAllShips[lastCall.shipId + 1], s,
                                        PropagationOfLastCall.visits[i].PointIndex)
                      \notin PropagationOfLastCall.visits[i].electrifiedPoints
               /\ s \notin ElementsOf(PropagationOfLastCall.visits[i].selectedFirst)

----------------------------------------------------------------------------
(* C24 *)

\* the candidates for a new spring at visit v of the propagation: the
\* connected springs not electrified in the previous interaction, other than
\* the incoming one, that lead to a particle not yet electrified
NewSpringCandidates(ship, propagation, v) ==
    {s \in GetConnectedSprings(ship, v.PointIndex) :
        /\ ~ propagation.read[s]
        /\ s # v.IncomingSpringIndex
        /\ GetOtherEndpointIndex(ship, s, v.PointIndex) \notin v.electrifiedPoints}

\* the alignment of spring t at visit v is at least that of spring s
IsAtLeastAsAligned(ship, v, t, s) ==
    ~ AlignmentGreater(Alignment(ship, v.PointIndex, s, v.Direction),
                       Alignment(ship, v.PointIndex, t, v.Direction))

\* s has the highest alignment among the candidates
HasHighestAlignment(ship, v, candidates, s) ==
    /\ s \in candidates
    /\ \A u \in candidates : IsAtLeastAsAligned(ship, v, s, u)

\* s has the second-highest alignment among the candidates: one other
\* candidate is at least as aligned, and all the rest are no more aligned
HasSecondHighestAlignment(ship, v, candidates, s) ==
    /\ s \in candidates
    /\ \E t \in candidates \ {s} :
           /\ IsAtLeastAsAligned(ship, v, t, s)
           /\ \A u \in candidates \ {s, t} : IsAtLeastAsAligned(ship, v, s, u)

\* the springs chosen anew at visit v: those added to the springs selected first
ChosenAnew(v) == SubSeq(v.withNewSpring, Len(v.selectedFirst) + 1, Len(v.withNewSpring))

\* the choice of a new spring at visit v is the one stated: the spring of
\* second-highest alignment when there are two candidates and that alignment
\* is not negative, otherwise the one of highest alignment, and none when
\* there is no candidate
ChoosesAsStated(ship, v, candidates) ==
    IF candidates = {}
    THEN ChosenAnew(v) = << >>
    ELSE /\ Len(ChosenAnew(v)) = 1
         /\ IF \E s \in candidates :
                   /\ HasSecondHighestAlignment(ship, v, candidates, s)
                   /\ Alignment(ship, v.PointIndex, s, v.Direction).n >= 0
            THEN /\ HasSecondHighestAlignment(ship, v, candidates, ChosenAnew(v)[1])
                 /\ Alignment(ship, v.PointIndex, ChosenAnew(v)[1], v.Direction).n >= 0
            ELSE HasHighestAlignment(ship, v, candidates, ChosenAnew(v)[1])

\* C24: when a new spring is chosen at a visited particle, the candidates
\* are the connected springs not electrified in the previous interaction,
\* other than the incoming one, that lead to a particle not yet electrified;
\* the chosen spring is the one of second-highest alignment when at least
\* two candidates exist and that alignment is non-negative, otherwise the
\* one of highest alignment, and no spring when there is no candidate.
C24_NewSpringIsSecondBestOrBest ==
    HasPropagated =>
        \A i \in DOMAIN PropagationOfLastCall.visits :
            (\/ PropagationOfLastCall.visits[i].doFindNewSpring
             \/ PropagationOfLastCall.visits[i].doFork
             \/ PropagationOfLastCall.visits[i].doReroute) =>
                ChoosesAsStated(mAllShips[lastCall.shipId + 1], PropagationOfLastCall.visits[i],
                                NewSpringCandidates(mAllShips[lastCall.shipId + 1],
                                                    PropagationOfLastCall,
                                                    PropagationOfLastCall.visits[i]))

----------------------------------------------------------------------------
(* C25 *)

\* the springs marked in a buffer
Electrified(buffer) == {s \in DOMAIN buffer : buffer[s]}

\* the springs of the arcs of the propagation, of the jump start or of the
\* expansion hops
SpringsOfArcs(propagation, isStartingArc) ==
    {propagation.arcs[i].spring :
        i \in {j \in DOMAIN propagation.arcs : propagation.arcs[j].isStartingArc = isStartingArc}}

\* a step of a ship: a propagation has read the buffer the ship held, has
\* left it as it was, and has left in the current buffer exactly the springs
\* of its expansion hops; any other step keeps the current buffer
C25_Step ==
    \A k \in DOMAIN mAllShips \cap DOMAIN mAllShips' :
        IF /\ lastCall'.op = "ShipElectricSparks::ApplySparkAt"
           /\ lastCall'.result = TRUE
           /\ lastCall'.shipId = k - 1
        THEN /\ mAllShips'[k].mElectricSparks.history.read
                    = mAllShips[k].mElectricSparks.mIsSpringElectrified
             /\ mAllShips'[k].mElectricSparks.mIsSpringElectrifiedBackup
                    = mAllShips[k].mElectricSparks.mIsSpringElectrified
             /\ Electrified(mAllShips'[k].mElectricSparks.mIsSpringElectrified)
                    = SpringsOfArcs(mAllShips'[k].mElectricSparks.history, FALSE)
             /\ Electrified(mAllShips'[k].mElectricSparks.mIsSpringElectrified)
                    \cap SpringsOfArcs(mAllShips'[k].mElectricSparks.history, TRUE) = {}
        ELSE mAllShips'[k].mElectricSparks.mIsSpringElectrified
                 = mAllShips[k].mElectricSparks.mIsSpringElectrified

\* C25: during a spark interaction the buffer of the springs electrified in
\* the previous interaction is only read; when the interaction ends the
\* current buffer holds exactly the springs of its expansion hops, none of
\* the springs leaving the seed and nothing of the previous interaction,
\* and it is this buffer that the next interaction reads.
C25_BuffersHoldOneInteractionEach == [][C25_Step]_vars

\* a propagation has ended whose hops have electrified springs, none of them
\* electrified in the previous interaction, which had electrified others
C25_Witness ==
    /\ HasPropagated
    /\ Electrified(SparksOfLastCall.mIsSpringElectrified) # {}
    /\ Electrified(SparksOfLastCall.mIsSpringElectrifiedBackup) # {}
    /\ Electrified(SparksOfLastCall.mIsSpringElectrified)
           \cap Electrified(SparksOfLastCall.mIsSpringElectrifiedBackup) = {}
    /\ SpringsOfArcs(PropagationOfLastCall, TRUE) # {}

----------------------------------------------------------------------------
(* C26 *)

ApplyToAllOperations == {"ApplyHeatBlasterAt", "ExtinguishFireAt", "FloodAt", "ScrubThrough"}

\* the last call is one of the interactions applied to all the ships
IsApplyToAll == lastCall.op \in ApplyToAllOperations

\* the ships asked are the ships of the world, each once, in the order of
\* their insertion
AsksEveryShipInInsertionOrder ==
    /\ Len(lastCall.invoked) = Len(mAllShips)
    /\ \A i \in DOMAIN mAllShips :
         /\ lastCall.invoked[i].shipId = mAllShips[i].shipId
         /\ lastCall.invoked[i].shipId = i - 1

\* C26: ApplyHeatBlasterAt, ExtinguishFireAt, FloodAt and ScrubThrough of
\* World ask every ship exactly once, in the order of insertion and whatever
\* the ships before have answered, and return true exactly when at least one
\* ship has answered true, hence false when there is no ship.
C26_ApplyToAllAsksEveryShipAndReturnsAny ==
    IsApplyToAll =>
        /\ AsksEveryShipInInsertionOrder
        /\ lastCall.result = (\E i \in DOMAIN lastCall.invoked : lastCall.invoked[i].isApplied)
        /\ (mAllShips = << >> => lastCall.result = FALSE)

\* the first ship has answered true, the second has been asked all the same
\* and has answered false
C26_Witness ==
    /\ IsApplyToAll
    /\ Len(lastCall.invoked) = 2
    /\ lastCall.invoked[1].isApplied
    /\ ~lastCall.invoked[2].isApplied
    /\ lastCall.result = TRUE

----------------------------------------------------------------------------
(* C27 *)

\* the last call is an OceanSurface::Update
IsOceanSurfaceUpdate == lastCall.op = "OceanSurface::Update"

\* the ocean surface before the last Update, and the wind and the parameters
\* the Update was handed
BeforeUpdate == lastCall.invoked[1].before
WindOfUpdate == lastCall.invoked[1].wind
ParametersOfUpdate == lastCall.invoked[1].gameParameters

\* the parameters of the basal waves and the rates of the abnormal waves
\* that an ocean surface has cached
CachedWaveParameters(o) ==
    << o.mWindBaseAndStormSpeedMagnitude, o.mBasalWaveHeightAdjustment,
       o.mBasalWaveLengthAdjustment, o.mBasalWaveSpeedAdjustment >>

CachedAbnormalWaveRates(o) == << o.mTsunamiRate, o.mRogueWaveRate >>

\* the same of the wind and of the parameters of the game
CurrentWaveParameters(wind, gameParameters) ==
    << wind.baseAndStormSpeedMagnitude, gameParameters.BasalWaveHeightAdjustment,
       gameParameters.BasalWaveLengthAdjustment, gameParameters.BasalWaveSpeedAdjustment >>

CurrentAbnormalWaveRates(gameParameters) ==
    << gameParameters.TsunamiRate, gameParameters.RogueWaveRate >>

\* the Update that has left this ocean surface has made the recalculation
HasRecalculated(o, recalculation) == \E i \in DOMAIN o.trace : o.trace[i] = recalculation

\* the timestamps of the next abnormal waves
ScheduledTimestamps(o) == << o.mNextTsunamiTimestamp, o.mNextRogueWaveTimestamp >>

\* the last Update has generated an abnormal wave
HasSpawned == Len(world.mOceanSurface.spawns) > Len(BeforeUpdate.spawns)

\* the recalculations are made exactly when the parameters differ from the
\* cached ones, the cached ones are the current ones afterwards, and
\* unchanged parameters leave the coefficients untouched
RecalculatesExactlyOnChange ==
    /\ HasRecalculated(world.mOceanSurface, "RecalculateWaveCoefficients")
         <=> (CachedWaveParameters(BeforeUpdate)
                # CurrentWaveParameters(WindOfUpdate, ParametersOfUpdate))
    /\ HasRecalculated(world.mOceanSurface, "RecalculateAbnormalWaveTimestamps")
         <=> (CachedAbnormalWaveRates(BeforeUpdate) # CurrentAbnormalWaveRates(ParametersOfUpdate))
    /\ CachedWaveParameters(world.mOceanSurface)
         = CurrentWaveParameters(WindOfUpdate, ParametersOfUpdate)
    /\ CachedAbnormalWaveRates(world.mOceanSurface) = CurrentAbnormalWaveRates(ParametersOfUpdate)
    /\ (CachedWaveParameters(BeforeUpdate) = CurrentWaveParameters(WindOfUpdate, ParametersOfUpdate))
         => world.mOceanSurface.mBasalWaveCoefficients = BeforeUpdate.mBasalWaveCoefficients

\* the Update the constructor of World makes, the very first, has made both
\* recalculations
FirstUpdateRecalculatesBoth ==
    lastCall.op = "World" =>
      /\ HasRecalculated(world.mOceanSurface, "RecalculateWaveCoefficients")
      /\ HasRecalculated(world.mOceanSurface, "RecalculateAbnormalWaveTimestamps")

\* C27 as stated: OceanSurface::Update recalculates the wave coefficients
\* exactly when the wind speed or an adjustment of the basal waves differs
\* from the cached one, and the timestamps of the abnormal waves exactly when
\* a rate differs from the cached one; afterwards the cached values are the
\* current ones, a step with unchanged parameters leaves the coefficients and
\* the scheduled timestamps untouched, and the first Update recalculates both.
C27_UnchangedParametersLeaveTimestampsUntouched ==
    /\ FirstUpdateRecalculatesBoth
    /\ IsOceanSurfaceUpdate =>
         /\ RecalculatesExactlyOnChange
         /\ (CachedAbnormalWaveRates(BeforeUpdate) = CurrentAbnormalWaveRates(ParametersOfUpdate))
              => ScheduledTimestamps(world.mOceanSurface) = ScheduledTimestamps(BeforeUpdate)

\* C27, amended: the same, but a step with unchanged rates leaves the
\* scheduled timestamps untouched only when it generates no abnormal wave: an
\* Update that generates a tsunami or a rogue wave schedules the next one of
\* the kind.
C27_RecalculatesExactlyOnChange ==
    /\ FirstUpdateRecalculatesBoth
    /\ IsOceanSurfaceUpdate =>
         /\ RecalculatesExactlyOnChange
         /\ ( /\ CachedAbnormalWaveRates(BeforeUpdate) = CurrentAbnormalWaveRates(ParametersOfUpdate)
              /\ ~HasSpawned )
              => ScheduledTimestamps(world.mOceanSurface) = ScheduledTimestamps(BeforeUpdate)

\* an Update has found the adjustment of the speed changed and nothing else,
\* and has recalculated the coefficients and not the timestamps
C27_Witness ==
    /\ IsOceanSurfaceUpdate
    /\ BeforeUpdate.mBasalWaveSpeedAdjustment # ParametersOfUpdate.BasalWaveSpeedAdjustment
    /\ BeforeUpdate.mWindBaseAndStormSpeedMagnitude = WindOfUpdate.baseAndStormSpeedMagnitude
    /\ BeforeUpdate.mBasalWaveHeightAdjustment = ParametersOfUpdate.BasalWaveHeightAdjustment
    /\ BeforeUpdate.mBasalWaveLengthAdjustment = ParametersOfUpdate.BasalWaveLengthAdjustment
    /\ CachedAbnormalWaveRates(BeforeUpdate) = CurrentAbnormalWaveRates(ParametersOfUpdate)
    /\ HasRecalculated(world.mOceanSurface, "RecalculateWaveCoefficients")
    /\ ~HasRecalculated(world.mOceanSurface, "RecalculateAbnormalWaveTimestamps")
    /\ ~HasSpawned
    /\ ScheduledTimestamps(world.mOceanSurface) = ScheduledTimestamps(BeforeUpdate)

----------------------------------------------------------------------------
(* C28 *)

\* the last call is an upload of the ocean surface
IsUpload == lastCall.op = "OceanSurface::Upload"

\* the x of a sample
SampleX(i) == i * Dx - HalfMaxWorldWidth

\* the sample at the left edge of the visible world, or the nearest at its left
LeftmostSample(visibleWorld) ==
    CHOOSE i \in 0..RenderedSamplesCount :
      /\ SampleX(i) <= visibleWorld.TopLeft.x
      /\ visibleWorld.TopLeft.x < SampleX(i + 1)

\* the samples that cover the visible world from the leftmost on, up to its
\* right edge
SamplesNeeded(visibleWorld) ==
    LET leftmost == LeftmostSample(visibleWorld)
    IN  CHOOSE n \in 1..RenderedSamplesCount :
          /\ SampleX(leftmost + n) >= visibleWorld.BottomRight.x
          /\ SampleX(leftmost + n - 1) < visibleWorld.BottomRight.x

\* the value of the ocean at x = position / RenderSlices, interpolated
\* between the sample at its left and the next
ValueInterpolatedAt(mSamples, position) ==
    LET i == CHOOSE j \in 0..RenderedSamplesCount :
               /\ SampleX(j) * RenderSlices <= position
               /\ position < SampleX(j + 1) * RenderSlices
    IN  Rational((mSamples[i].SampleValue * (Dx * RenderSlices)
                    + mSamples[i].SampleValuePlusOneMinusSampleValue
                        * (position - SampleX(i) * RenderSlices)) * 100,
                 Dx * RenderSlices * 100)

\* the vertices are at equal spacing from the leftmost sample to the right
\* edge of the visible world, with interpolated values
IsInterpolatedUpload(upload, mSamples, visibleWorld) ==
    LET first == SampleX(LeftmostSample(visibleWorld))
    IN  \A k \in DOMAIN upload.vertices :
          /\ upload.vertices[k].x =
               Rational(first * RenderSlices + (k - 1) * (visibleWorld.BottomRight.x - first),
                        RenderSlices)
          /\ upload.vertices[k].sample = ValueInterpolatedAt(mSamples, upload.vertices[k].x.n)

\* the vertices are the samples from the leftmost on, with their values
IsRawUpload(upload, mSamples, visibleWorld) ==
    LET leftmost == LeftmostSample(visibleWorld)
    IN  \A k \in DOMAIN upload.vertices :
          /\ upload.vertices[k].x = Rational(SampleX(leftmost + k - 1), 1)
          /\ upload.vertices[k].sample = Rational(mSamples[leftmost + k - 1].SampleValue, 1)

UploadAsStated(upload, mSamples, visibleWorld) ==
    LET needed == SamplesNeeded(visibleWorld)
    IN
    /\ upload.start = IF needed < RenderSlices THEN needed ELSE RenderSlices
    /\ upload.start <= 500
    /\ DOMAIN upload.vertices = 1..(upload.start + 1)
    /\ IF needed >= 500
       THEN IsInterpolatedUpload(upload, mSamples, visibleWorld)
       ELSE IsRawUpload(upload, mSamples, visibleWorld)
    /\ \A k \in DOMAIN upload.vertices : upload.vertices[k].reads \subseteq 0..RenderedSamplesCount

\* C28: the upload of the ocean surface declares min(numberOfSamplesToRender,
\* RenderSlices) slices, at most 500, and uploads one vertex more than the
\* slices declared: values interpolated at equal spacing when the visible
\* world needs at least 500 samples, the values of the samples at spacing Dx
\* otherwise; every index of a sample it reads is within 0..SamplesCount.
C28_UploadDeclaresSlicesAndUploadsOneMoreVertex ==
    IsUpload => UploadAsStated(lastCall.result, world.mOceanSurface.mSamples,
                               lastCall.invoked[1].visibleWorld)

\* a visible world that needs exactly 500 samples and begins within a sample
\* has been uploaded with the three planes, the last vertex at its right edge
C28_Witness ==
    /\ IsUpload
    /\ lastCall.invoked[1].detailType = "Detailed"
    /\ SamplesNeeded(lastCall.invoked[1].visibleWorld) = 500
    /\ SampleX(LeftmostSample(lastCall.invoked[1].visibleWorld))
         < lastCall.invoked[1].visibleWorld.TopLeft.x
    /\ lastCall.result.start = 500
    /\ lastCall.result.vertices[501].x.n = lastCall.invoked[1].visibleWorld.BottomRight.x * RenderSlices
    /\ \E k \in DOMAIN lastCall.result.vertices :
         lastCall.result.vertices[k].sample.n % lastCall.result.vertices[k].sample.d # 0

\* a visible world that needs fewer samples than the budget has been uploaded
C28_WitnessZoomIn ==
    /\ IsUpload
    /\ SamplesNeeded(lastCall.invoked[1].visibleWorld) = 499
    /\ lastCall.result.start = 499

----------------------------------------------------------------------------
(* C29 *)

\* the last call is a diffusion of the light
IsDiffusion == lastCall.op = "Algorithms::DiffuseLight_Vectorized"

\* the points and the lamps of the last diffusion, and the light buffer it
\* has filled
PointsOfDiffusion == lastCall.invoked[1].points
LampsOfDiffusion == lastCall.invoked[1].lamps
LightBuffer == lastCall.result

\* the lights a fixture expects differ from these by no more than the
\* rounding of the distances
LightTolerance == 2

IsAsExpected(light, p) ==
    \A i \in DOMAIN lastCall.invoked[1].expected :
      /\ light - lastCall.invoked[1].expected[i][p] <= LightTolerance
      /\ lastCall.invoked[1].expected[i][p] - light <= LightTolerance

\* the contribution C * (S - D) of a lamp at a point, floored at zero
Contribution(point, lamp) ==
    LET squareDistance == squareLength(vecSub(lamp.position, point.position))
    IN  IF squareDistance >= lamp.spreadMaxDistance * lamp.spreadMaxDistance
        THEN 0
        ELSE lamp.distanceCoeff * (lamp.spreadMaxDistance * 1000 - DistanceOfSquare(squareDistance))

\* the sum of the contributions of the lamps from position l on that are on
\* the plane of the point
RECURSIVE SumOverSamePlane(_, _, _)
SumOverSamePlane(point, lamps, l) ==
    IF l > Len(lamps) THEN 0
    ELSE (IF lamps[l].planeId = point.planeId THEN Contribution(point, lamps[l]) ELSE 0)
           + SumOverSamePlane(point, lamps, l + 1)

\* the largest of the contributions of the lamps that are not on a plane
\* below that of the point, 1.0 at most
BrightestOverPlanesNotBelow(point, lamps) ==
    LET contributions == { Contribution(point, lamps[l]) :
                             l \in {k \in DOMAIN lamps : lamps[k].planeId >= point.planeId} }
                         \cup {0}
        brightest == CHOOSE light \in contributions : \A other \in contributions : other <= light
    IN  IF brightest > LightOne THEN LightOne ELSE brightest

\* C29 as stated: the light at a point is the sum of the contributions
\* C * (S - D), floored at zero, of the lamps of the plane of the point; a
\* lamp of another plane contributes nothing.
C29_LightIsSumOverSamePlane ==
    IsDiffusion =>
      \A p \in DOMAIN PointsOfDiffusion :
        /\ LightBuffer[p] = SumOverSamePlane(PointsOfDiffusion[p], LampsOfDiffusion, 1)
        /\ IsAsExpected(SumOverSamePlane(PointsOfDiffusion[p], LampsOfDiffusion, 1), p)

\* C29, amended: the light at a point is the largest, not the sum, of the
\* contributions C * (S - D), floored at zero, of the lamps whose plane is
\* that of the point or above it, and 1.0 at most; a lamp of a plane below
\* that of the point contributes nothing.  This is also what the fixtures
\* expect.
C29_LightIsBrightestOverPlanesNotBelow ==
    IsDiffusion =>
      \A p \in DOMAIN PointsOfDiffusion :
        /\ LightBuffer[p] = BrightestOverPlanesNotBelow(PointsOfDiffusion[p], LampsOfDiffusion)
        /\ IsAsExpected(BrightestOverPlanesNotBelow(PointsOfDiffusion[p], LampsOfDiffusion), p)

\* the fixture of three lamps has been run: the first point, of plane 1, is
\* lit by the lamps of planes 2 and 3, and the last, of plane 3, by the lamp
\* of plane 3 and not by the brighter one of plane 2
C29_Witness ==
    /\ IsDiffusion
    /\ LampsOfDiffusion = DiffuseLight_3Lamps.lamps
    /\ lastCall.invoked[1].expected = << DiffuseLight_3Lamps.expected >>
    /\ LightBuffer[1] = LightOne
    /\ LightBuffer[4] = Contribution(PointsOfDiffusion[4], LampsOfDiffusion[3])
    /\ LightBuffer[4] < Contribution(PointsOfDiffusion[4], LampsOfDiffusion[1])
    /\ LampsOfDiffusion[1].planeId < PointsOfDiffusion[4].planeId

----------------------------------------------------------------------------
(* C30 *)

\* the lamps that are not on a plane below that of the point
LampsOfPlanesNotBelow(point, lamps) == {l \in DOMAIN lamps : lamps[l].planeId >= point.planeId}

\* the lamp is farther from the point than its light spreads
IsFartherThanSpread(point, lamp) ==
    squareLength(vecSub(lamp.position, point.position))
      > lamp.spreadMaxDistance * lamp.spreadMaxDistance

\* the lamp contributes to the light of the point
Contributes(point, lamp) ==
    /\ lamp.planeId >= point.planeId
    /\ Contribution(point, lamp) > 0

\* the contribution of a lamp, 1.0 at most
CappedContribution(point, lamp) ==
    IF Contribution(point, lamp) > LightOne THEN LightOne ELSE Contribution(point, lamp)

\* the light of the point is that of one lamp, the brightest for it
IsLargestSingleContribution(light, point, lamps) ==
    /\ light <= LightOne
    /\ \A l \in LampsOfPlanesNotBelow(point, lamps) : light >= CappedContribution(point, lamps[l])
    /\ \/ light = 0
       \/ \E l \in LampsOfPlanesNotBelow(point, lamps) : light = CappedContribution(point, lamps[l])
    /\ (\A l \in LampsOfPlanesNotBelow(point, lamps) : IsFartherThanSpread(point, lamps[l]))
         => light = 0

\* the light of the point is the same without the lamps that contribute
\* nothing to it, and with them all ahead of the others
IsIndependentOfIdleLamps(light, point, lamps) ==
    LET contributing == SelectSeq(lamps, LAMBDA lamp : Contributes(point, lamp))
        idle == SelectSeq(lamps, LAMBDA lamp : ~Contributes(point, lamp))
    IN  /\ light = PointLight(point, contributing, 1, 0)
        /\ light = PointLight(point, idle \o contributing, 1, 0)
        /\ light = PointLight(point, contributing \o idle, 1, 0)

\* C30: DiffuseLight_Vectorized gives a point the largest contribution of a
\* single lamp, not the sum: the largest C * (S - D), floored at 0, over the
\* lamps whose plane is that of the point or above, and 1.0 at most; 0 when
\* every such lamp is farther than its light spreads; and the same whatever
\* the number and the order of the lamps that contribute nothing.
C30_LightIsLargestSingleContribution ==
    IsDiffusion =>
      \A p \in DOMAIN PointsOfDiffusion :
        /\ IsLargestSingleContribution(LightBuffer[p], PointsOfDiffusion[p], LampsOfDiffusion)
        /\ IsIndependentOfIdleLamps(LightBuffer[p], PointsOfDiffusion[p], LampsOfDiffusion)
        /\ IsAsExpected(LightBuffer[p], p)

\* a point has the light of the brightest of two lamps that contribute to
\* it, below 1.0 and below their sum, and a third lamp contributes nothing
C30_Witness ==
    /\ IsDiffusion
    /\ \E p \in DOMAIN PointsOfDiffusion :
         \E a, b, c \in DOMAIN LampsOfDiffusion :
           /\ a # b
           /\ Contributes(PointsOfDiffusion[p], LampsOfDiffusion[a])
           /\ Contributes(PointsOfDiffusion[p], LampsOfDiffusion[b])
           /\ ~Contributes(PointsOfDiffusion[p], LampsOfDiffusion[c])
           /\ Contribution(PointsOfDiffusion[p], LampsOfDiffusion[a])
                < Contribution(PointsOfDiffusion[p], LampsOfDiffusion[b])
           /\ LightBuffer[p] = Contribution(PointsOfDiffusion[p], LampsOfDiffusion[b])
           /\ LightBuffer[p] < LightOne

----------------------------------------------------------------------------
(* C31 *)

\* the powers of two and of four up to those that cover the values ceiled
PowersOfTwo == { 2^k : k \in 0..12 }
PowersOfFour == { 4^k : k \in 0..6 }

\* the least of the powers that is not below the value
IsLeastPowerNotBelow(power, powers, value) ==
    /\ power \in powers
    /\ power >= value
    /\ \A other \in powers : other >= value => power <= other

\* the value of the last call, and what a test expects of it
CeiledValue == lastCall.invoked[1].value

IsExpectedOfCeiled == \A i \in DOMAIN lastCall.invoked[1].expected :
                        lastCall.result = lastCall.invoked[1].expected[i]

\* C31: for every n >= 0, ceil_power_of_two(n) is the least power of two
\* that is not below n, hence 1 for 0, and ceil_square_power_of_two(n) is the
\* least power of four that is not below n, except that it is 0 for 0.  The
\* tables of the tests say the same.
C31_CeilIsLeastPowerNotBelow ==
    /\ lastCall.op = "ceil_power_of_two" =>
         /\ IsLeastPowerNotBelow(lastCall.result, PowersOfTwo, CeiledValue)
         /\ CeiledValue = 0 => lastCall.result = 1
         /\ IsExpectedOfCeiled
    /\ lastCall.op = "ceil_square_power_of_two" =>
         /\ IF CeiledValue = 0 THEN lastCall.result = 0
            ELSE IsLeastPowerNotBelow(lastCall.result, PowersOfFour, CeiledValue)
         /\ IsExpectedOfCeiled

\* 17, of the table of the test, has been ceiled to 64, where the least
\* power of two not below it is 32
C31_Witness ==
    /\ lastCall.op = "ceil_square_power_of_two"
    /\ CeiledValue = 17
    /\ lastCall.invoked[1].expected = << 64 >>
    /\ lastCall.result = 64
    /\ IsLeastPowerNotBelow(32, PowersOfTwo, CeiledValue)

----------------------------------------------------------------------------
(* C32 *)

\* the last call is a calculation of the directions of the springs
IsDirsCalculation == lastCall.op = "Algorithms::CalculateVectorDirsAndReciprocalLengths"

\* the tolerance of the test, 0.001
DirsTolerance == 100

IsWithin(a, b, tolerance) == a - b <= tolerance /\ b - a <= tolerance

\* the length of the vector, in thousandths and rounded down
IsLengthOf(length, vector) ==
    /\ length * length <= squareLength(vector) * 1000000
    /\ (length + 1) * (length + 1) > squareLength(vector) * 1000000

\* the output is the unit vector from A to B and the reciprocal of their
\* distance, within the tolerance: multiplied by the length they are the
\* vector from A to B and one
IsDirAndReciprocalLengthOf(output, posA, posB) ==
    \E length \in 1000..12000 :
      /\ IsLengthOf(length, << posB[1] - posA[1], posB[2] - posA[2] >>)
      /\ IsWithin(output.reciprocalLength * length, ReciprocalOne * 1000, DirsTolerance * length)
      /\ \A c \in 1..2 :
           IsWithin(output.dir[c] * length, (posB[c] - posA[c]) * ReciprocalOne * 1000,
                    DirsTolerance * length)

\* C32: CalculateVectorDirsAndReciprocalLengths writes one output per spring,
\* in the order of the springs: for a spring (a, b) of distinct positions the
\* unit vector from the position of a to that of b, and the reciprocal of
\* their distance, within 0.001.  The fixture expects the same.
C32_DirsAndReciprocalLengthsPerSpring ==
    IsDirsCalculation =>
      LET in == lastCall.invoked[1]
      IN  /\ DOMAIN lastCall.result = DOMAIN in.springs
          /\ \A s \in DOMAIN in.springs :
               /\ IsDirAndReciprocalLengthOf(lastCall.result[s],
                                             in.pointPositions[in.springs[s].PointAIndex],
                                             in.pointPositions[in.springs[s].PointBIndex])
               /\ \A i \in DOMAIN in.expected :
                    /\ IsWithin(lastCall.result[s].reciprocalLength,
                                in.expected[i][s].reciprocalLength, DirsTolerance)
                    /\ \A c \in 1..2 : IsWithin(lastCall.result[s].dir[c],
                                                in.expected[i][s].dir[c], DirsTolerance)

\* the fixture has been run: its last spring, from (10, 5) to (3, 4), has a
\* direction of negative components
C32_Witness ==
    /\ IsDirsCalculation
    /\ lastCall.invoked[1].springs = SpringFixtureSprings
    /\ lastCall.invoked[1].expected # << >>
    /\ Len(lastCall.result) = 4
    /\ lastCall.result[4].dir[1] < 0 - 9 * (ReciprocalOne \div 10)
    /\ lastCall.result[4].dir[2] < 0
    /\ lastCall.result[4].reciprocalLength > 0

----------------------------------------------------------------------------
(* C33 *)

\* the last call is a release of the ocean surface
IsRelease == lastCall.op = "World::AdjustOceanSurfaceTo" /\ lastCall.targetPos = << >>

\* C33: in every sequence of World::AdjustOceanSurfaceTo and World::Update
\* calls, each release (AdjustOceanSurfaceTo without coordinates) finds an
\* interactive wave state machine, and finds it in its Rise phase: no
\* assertion of OceanSurface::AdjustTo or of Release fails.
C33_ReleaseFindsRisingMachine ==
    IsRelease => lastCall.events = << "Rise" >> /\ lastCall.result = "void"

\* a release has found a rising machine, and has made it fall
C33_ReleasedWhileRising ==
    /\ IsRelease
    /\ lastCall.events = << "Rise" >>
    /\ FoundByRelease(world.mOceanSurface) = "Fall"

\* a release has found no machine
C33_ReleasedWithoutMachine == IsRelease /\ lastCall.events = << "none" >>

\* a release has found a falling machine
C33_ReleasedWhileFalling == IsRelease /\ lastCall.events = << "Fall" >>

----------------------------------------------------------------------------
(* C34 *)

\* the last call is a call of UpdateFields
IsUpdateFields == lastCall.op = "OceanSurface::UpdateFields"

\* the height field with the smoothed delta-height of the samples
HeightsWithDelta(h, buffer) ==
    [c \in FieldIndices |->
       IF c >= SWEOuterLayerSamples /\ c < SWEOuterLayerSamples + SamplesCount
       THEN FAdd(h[c], SmoothedDeltaHeight(buffer, c - SWEOuterLayerSamples))
       ELSE h[c]]

\* first phase: every height cell 0..SWETotalSamples-1 out of the velocities
\* before the step
HeightsOfFirstPhase(h, v) ==
    [i \in FieldIndices |->
       IF i < SWETotalSamples
       THEN FSub(h[i], FMul(FMul(h[i], FSub(v[i + 1], v[i])), FactorH))
       ELSE h[i]]

\* second phase: every velocity cell 1..SWETotalSamples-1 out of the heights
\* after the step
VelocitiesOfSecondPhase(hAfter, v) ==
    [i \in FieldIndices |->
       IF i >= 1 /\ i < SWETotalSamples
       THEN FAdd(v[i], FMul(FSub(hAfter[i - 1], hAfter[i]), FactorV))
       ELSE v[i]]

\* C34: the single in-place pass of UpdateFields over the cells is a
\* two-phase step: every height cell 0..SWETotalSamples-1 is updated out of
\* the velocity field as it was before the step, then every velocity cell
\* 1..SWETotalSamples-1 out of the height field as it is after the step.
C34_InPlacePassIsTwoPhaseStep ==
    IsUpdateFields =>
      LET before == lastCall.invoked[1]
          hAfter == HeightsOfFirstPhase(HeightsWithDelta(before.h, before.buffer), before.v)
      IN  /\ world.mOceanSurface.mHeightField = hAfter
          /\ world.mOceanSurface.mVelocityField = VelocitiesOfSecondPhase(hAfter, before.v)

\* UpdateFields has run on fields where the order matters: a velocity cell
\* has changed whose two neighbouring heights have changed too, and a height
\* cell has changed whose two neighbouring velocities have changed too
C34_Witness ==
    /\ IsUpdateFields
    /\ LET before == lastCall.invoked[1]
           h == world.mOceanSurface.mHeightField
           v == world.mOceanSurface.mVelocityField
       IN  /\ \E i \in 1..(SWETotalSamples - 1) :
                /\ v[i] # before.v[i]
                /\ h[i - 1] # before.h[i - 1]
                /\ h[i] # before.h[i]
           /\ \E i \in 1..(SWETotalSamples - 2) :
                /\ h[i] # before.h[i]
                /\ v[i] # before.v[i]
                /\ v[i + 1] # before.v[i + 1]

----------------------------------------------------------------------------
(* C35 *)

\* C35: in every reachable state, and so after every OceanSurface::Update,
\* the velocity cells at the two ends of the grid, 0 and SWETotalSamples, are
\* exactly 0: no water flows through the outer edges of the grid.
C35_VelocitiesAtTheEndsAreNull ==
    /\ world.mOceanSurface.mVelocityField[0] = F(0)
    /\ world.mOceanSurface.mVelocityField[SWETotalSamples] = F(0)

\* an Update has run on a surface that flows: the velocity cell next to the
\* left end is not null, nor is a velocity cell of the right outer layer
C35_Witness ==
    /\ lastCall.op = "World::Update"
    /\ world.mOceanSurface.mVelocityField[1] # F(0)
    /\ world.mOceanSurface.mVelocityField[SWETotalSamples - 3] # F(0)
    /\ world.mOceanSurface.mVelocityField[0] = F(0)
    /\ world.mOceanSurface.mVelocityField[SWETotalSamples] = F(0)

----------------------------------------------------------------------------
(* C36 *)

\* the arcs held are those of the latest propagation, one per spring followed
AreArcsOfLatestInteraction(sparks) ==
    /\ Len(sparks.mSparksToRender) = Len(sparks.history.arcs)
    /\ \A i \in DOMAIN sparks.mSparksToRender :
         sparks.mSparksToRender[i].StartPointIndex = sparks.history.arcs[i].from

\* a step of a ship.  A successful ApplySparkAt leaves the arcs of its
\* propagation, fresh; an unsuccessful one changes neither the arcs nor
\* their freshness; an Update keeps fresh arcs, which are fresh no longer,
\* and clears the others; nothing else touches the arcs.  The arcs held are
\* none, or those of the latest propagation.
C36_Step ==
    \A k \in DOMAIN mAllShips \cap DOMAIN mAllShips' :
      LET before == mAllShips[k].mElectricSparks
          after == mAllShips'[k].mElectricSparks
      IN  /\ CASE lastCall'.op = "ShipElectricSparks::ApplySparkAt" /\ lastCall'.shipId = k - 1 ->
                    IF lastCall'.result = TRUE
                    THEN /\ after.mAreSparksPopulatedBeforeNextUpdate
                         /\ AreArcsOfLatestInteraction(after)
                         /\ after.history.counter = << lastCall'.invoked[1].counter >>
                    ELSE after = before
               [] lastCall'.op = "ShipElectricSparks::Update" /\ lastCall'.shipId = k - 1 ->
                    /\ ~ after.mAreSparksPopulatedBeforeNextUpdate
                    /\ after.mSparksToRender =
                         IF before.mAreSparksPopulatedBeforeNextUpdate
                         THEN before.mSparksToRender
                         ELSE << >>
                    /\ after.history = before.history
               [] OTHER -> after = before
          /\ after.mSparksToRender = << >> \/ AreArcsOfLatestInteraction(after)

\* C36: the arcs of a successful ApplySparkAt are still held after the next
\* ShipElectricSparks::Update and are cleared by the Update after that,
\* unless another successful ApplySparkAt came in between; an unsuccessful
\* ApplySparkAt does not prolong them; the arcs held are those of at most one
\* interaction, the latest.
C36_ArcsAreHeldForOneUpdate == [][C36_Step]_vars

\* an Update has kept the arcs of a propagation, which the next Update is
\* to clear
C36_Witness ==
    /\ lastCall.op = "ShipElectricSparks::Update"
    /\ SparksOfLastCall.mSparksToRender # << >>
    /\ ~ SparksOfLastCall.mAreSparksPopulatedBeforeNextUpdate
    /\ AreArcsOfLatestInteraction(SparksOfLastCall)

\* the second Update after a propagation has cleared its arcs
C36_WitnessCleared ==
    /\ lastCall.op = "ShipElectricSparks::Update"
    /\ SparksOfLastCall.mSparksToRender = << >>
    /\ SparksOfLastCall.history.arcs # << >>

\* an unsuccessful ApplySparkAt has come after the Update that kept the arcs
C36_WitnessUnsuccessful ==
    /\ lastCall.op = "ShipElectricSparks::ApplySparkAt"
    /\ lastCall.result = FALSE
    /\ SparksOfLastCall.mSparksToRender # << >>
    /\ ~ SparksOfLastCall.mAreSparksPopulatedBeforeNextUpdate

----------------------------------------------------------------------------
(* C37 *)

\* the arcs rendered by the last propagation, and the particle it started from
RenderedArcs == SparksOfLastCall.mSparksToRender

SeedOfLastCall == lastCall.invoked[1].startingPointIndex

\* the springs that leave the seed lead to another particle, and no two of
\* them lead to the same one: what the two assertions of the jump start need
SeedSpringsLeadApart ==
    LET ship == mAllShips[lastCall.shipId + 1]
        leaving == ship.points[SeedOfLastCall].connectedSprings
    IN  /\ \A s \in leaving : GetOtherEndpointIndex(ship, s, SeedOfLastCall) # SeedOfLastCall
        /\ \A s, t \in leaving :
             s # t => GetOtherEndpointIndex(ship, s, SeedOfLastCall)
                        # GetOtherEndpointIndex(ship, t, SeedOfLastCall)

\* C37: in one spark interaction every point is electrified at most once:
\* each point is the end point of at most one rendered arc, the seed is the
\* end point of none, and the start point of every rendered arc is the seed
\* or the end point of an earlier arc: the arcs form a tree rooted at the
\* seed.  The far endpoints of the springs leaving the seed are not yet
\* electrified when the jump start reaches them.
C37_ArcsFormTreeRootedAtSeed ==
    HasPropagated =>
      /\ \A i, j \in DOMAIN RenderedArcs :
           i # j => RenderedArcs[i].EndPointIndex # RenderedArcs[j].EndPointIndex
      /\ \A i \in DOMAIN RenderedArcs :
           /\ RenderedArcs[i].EndPointIndex # SeedOfLastCall
           /\ \/ RenderedArcs[i].StartPointIndex = SeedOfLastCall
              \/ \E j \in 1..(i - 1) :
                   RenderedArcs[j].EndPointIndex = RenderedArcs[i].StartPointIndex
      /\ {p \in DOMAIN SparksOfLastCall.mIsPointElectrified : SparksOfLastCall.mIsPointElectrified[p]}
           = {SeedOfLastCall} \cup {RenderedArcs[i].EndPointIndex : i \in DOMAIN RenderedArcs}
      /\ SeedSpringsLeadApart

\* a propagation has come back to a particle it had electrified: a visit
\* has begun at a particle with a spring, other than the one it came by, to
\* a particle electrified already, and arcs have been rendered that do not
\* start at the seed
C37_Witness ==
    /\ HasPropagated
    /\ \E i \in DOMAIN RenderedArcs : RenderedArcs[i].StartPointIndex # SeedOfLastCall
    /\ \E v \in DOMAIN PropagationOfLastCall.visits :
         LET visit == PropagationOfLastCall.visits[v]
             ship == mAllShips[lastCall.shipId + 1]
         IN  \E s \in ship.points[visit.PointIndex].connectedSprings :
               /\ s # visit.IncomingSpringIndex
               /\ GetOtherEndpointIndex(ship, s, visit.PointIndex) \in visit.electrifiedPoints

----------------------------------------------------------------------------
(* C40 *)

\* the sizes of the rendered arcs lie between 0.2 and 1.0, and the end size
\* of an arc does not exceed its start size
ArcSizesAreWithinRange ==
    \A i \in DOMAIN RenderedArcs :
      /\ FGreaterEq(RenderedArcs[i].StartSize, F(20000))
      /\ FGreaterEq(FInt(1), RenderedArcs[i].StartSize)
      /\ FGreaterEq(RenderedArcs[i].EndSize, F(20000))
      /\ FGreaterEq(RenderedArcs[i].StartSize, RenderedArcs[i].EndSize)

\* the budget computed for the counter is min(counter + 1, 25), between 1
\* and 25
BudgetIsWithinRange(counter) ==
    /\ MaxEquivalentPathLengthForThisInteraction(counter) = PathLengthBudget(counter)
    /\ MaxEquivalentPathLengthForThisInteraction(counter) \in 1..MaxPathLength

\* C40: for every value of the 64-bit unsigned interaction counter, the
\* largest included, the maximum equivalent path length computed for the
\* interaction is min(counter + 1, 25), between 1 and 25: the divisor of the
\* arc sizes is never zero, every rendered arc size lies between 0.2 and
\* 1.0, and the end size of an arc never exceeds its start size.
C40_BudgetAndArcSizesAreWithinRange ==
    HasPropagated =>
      /\ BudgetIsWithinRange(PropagationOfLastCall.counter[1])
      /\ ArcSizesAreWithinRange

\* for every counter but the largest the budget and the sizes are within
\* their ranges
C40_WithinRangeBelowLargestCounter ==
    HasPropagated /\ PropagationOfLastCall.counter # << -1 >> =>
      /\ BudgetIsWithinRange(PropagationOfLastCall.counter[1])
      /\ ArcSizesAreWithinRange

\* a propagation has run with the largest counter: the budget is 0, and the
\* sizes of its arcs are not numbers
C40_LargestCounter ==
    /\ HasPropagated
    /\ PropagationOfLastCall.counter = << -1 >>
    /\ RenderedArcs # << >>
    /\ \A i \in DOMAIN RenderedArcs :
         IsNaN(RenderedArcs[i].StartSize) /\ RenderedArcs[i].EndSize.k = "inf"

----------------------------------------------------------------------------
(* C38 *)

\* the notifications of the last call about the physics probe of a ship
ProbeNotifications(call, ship) ==
    SelectSeq(call.events,
              LAMBDA e : /\ e.event \in {"OnGadgetPlaced", "OnGadgetRemoved"}
                         /\ e.gadgetType = "PhysicsProbe"
                         /\ e.gadgetId[1] = ship.shipId)

\* a step of the physics probe of a ship: at most one notification; a
\* placement is notified of a ship without probe and leaves the probe it
\* names; a removal is notified of the probe the ship had and leaves none;
\* without notification the ship has a probe exactly if it had one
C38_Step ==
    \A i \in DOMAIN mAllShips \cap DOMAIN mAllShips' :
      LET ship == mAllShips[i]
          after == mAllShips'[i]
          notifications == ProbeNotifications(lastCall', ship)
      IN  /\ Len(notifications) <= 1
          /\ notifications = << >> =>
               /\ (after.physicsProbe # << >>) <=> (ship.physicsProbe # << >>)
          /\ notifications # << >> =>
               IF notifications[1].event = "OnGadgetPlaced"
               THEN /\ ship.physicsProbe = << >>
                    /\ after.physicsProbe # << >>
                    /\ after.physicsProbe[1].id = notifications[1].gadgetId
               ELSE /\ ship.physicsProbe # << >>
                    /\ ship.physicsProbe[1].id = notifications[1].gadgetId
                    /\ after.physicsProbe = << >>
          /\ after = ship => notifications = << >>

\* a ship is added without a probe
C38_ShipAdded ==
    \A i \in DOMAIN mAllShips' \ DOMAIN mAllShips : mAllShips'[i].physicsProbe = << >>

\* C38: the OnGadgetPlaced and OnGadgetRemoved notifications of the physics
\* probe of a ship alternate, starting with a placement: a ship is added
\* without probe, a placement is notified only of a ship without probe and a
\* removal only of a ship with one, and the probe exists exactly when the
\* last notification was a placement; a move and a call that changes nothing
\* emit no notification.
C38_ProbeNotificationsAlternate == [][C38_ShipAdded /\ C38_Step]_vars

\* the removal of a probe has been notified that was not the first gadget of
\* the ship: the probe had been moved, or placed again
C38_Witness ==
    /\ lastCall.op \in {"RemovePhysicsProbe", "TogglePhysicsProbeAt"}
    /\ Len(lastCall.events) = 1
    /\ lastCall.events[1].event = "OnGadgetRemoved"
    /\ lastCall.events[1].gadgetType = "PhysicsProbe"
    /\ lastCall.events[1].gadgetId[2] >= 1
    /\ mAllShips[lastCall.shipId + 1].physicsProbe = << >>

\* a toggle has moved the probe without a notification
C38_WitnessMoved ==
    /\ lastCall.op = "TogglePhysicsProbeAt"
    /\ lastCall.result = "nullopt"
    /\ lastCall.events = << >>
    /\ mAllShips[lastCall.shipId + 1].physicsProbe # << >>
    /\ mAllShips[lastCall.shipId + 1].physicsProbe[1].id[2] >= 1

----------------------------------------------------------------------------
(* C39 *)

\* the longer side of the line
LongerSide(loop) ==
    LET dx == AbsOf(loop.endPoint[1] - loop.startPoint[1])
        dy == AbsOf(loop.endPoint[2] - loop.startPoint[2])
    IN  IF dx > dy THEN dx ELSE dy

\* consecutive cells of Minimal: 1 apart along the wider axis, at most 1 along
\* the other; of WithAdjacentSteps: 1 apart in one coordinate, 0 in the other
AreConsecutive(loop, a, b) ==
    LET w == IF loop.widestIsX THEN 1 ELSE 2
        n == IF loop.widestIsX THEN 2 ELSE 1
    IN  IF loop.type = "Minimal"
        THEN AbsOf(a[w] - b[w]) = 1 /\ AbsOf(a[n] - b[n]) <= 1
        ELSE AbsOf(a[1] - b[1]) + AbsOf(a[2] - b[2]) = 1

\* what the claim says of a path, while the loop runs and when it has ended:
\* the loop ends, within as many iterations as the longer side is long
IsPathAsClaimed(loop) ==
    /\ loop.visited[1] = loop.startPoint
    /\ \A i \in 1..(Len(loop.visited) - 1) : AreConsecutive(loop, loop.visited[i], loop.visited[i + 1])
    /\ loop.iterations <= LongerSide(loop)
    /\ ~ loop.isDone => loop.iterations < LongerSide(loop)
    /\ loop.isDone =>
         /\ loop.visited[Len(loop.visited)] = loop.endPoint
         /\ loop.startPoint = loop.endPoint => loop.visited = << loop.startPoint >>
         /\ loop.type = "Minimal" => Len(loop.visited) = LongerSide(loop) + 1

\* C39: GenerateIntegralLinePath visits the start point first and the end
\* point last, only the start point when the two are equal, never the same
\* cell twice in a row, and terminates for all integral endpoints; in Minimal
\* mode it visits max(|dx|, |dy|) + 1 cells, consecutive cells 1 apart along
\* the wider axis and at most 1 along the other; in WithAdjacentSteps mode
\* consecutive cells are 1 apart in exactly one coordinate.
C39_LinePathFromStartToEnd == IsLinePath => IsPathAsClaimed(LinePath)

\* the coordinates of the line are below 2^24
IsBelowFloat32IntegersMax(loop) ==
    \A c \in 1..2 : AbsOf(loop.startPoint[c]) < Float32IntegersMax
                    /\ AbsOf(loop.endPoint[c]) < Float32IntegersMax

\* for the endpoints of small coordinates the path is as claimed
C39_LinePathOfSmallCoordinates ==
    IsLinePath /\ IsBelowFloat32IntegersMax(LinePath) => IsPathAsClaimed(LinePath)

\* the loop goes on beyond 2^24 without moving: it has run more iterations
\* than the line is long and has visited the start point only
C39_LoopDoesNotAdvance ==
    /\ IsLinePath
    /\ ~ LinePath.isDone
    /\ LinePath.iterations > LongerSide(LinePath)
    /\ LinePath.visited = << LinePath.startPoint >>

\* a path of WithAdjacentSteps has ended that has both wide and narrow steps
C39_SmallPathDone ==
    /\ IsLinePath
    /\ LinePath.isDone
    /\ LinePath.type = "WithAdjacentSteps"
    /\ Len(LinePath.visited) > LongerSide(LinePath) + 2
    /\ LinePath.slope \notin {0, NarrowOne, 0 - NarrowOne}

====
